---- MODULE Spec2Model ----
(***************************************************************************)
(* A model of llm-cli: the tool executor (executeTool), the approval       *)
(* prompt of write_file, and the turn driver (handleSubmit,                *)
(* OpenAIHandler.handleUserMessage, OpenAIHandler.handleToolCalls).        *)
(*                                                                         *)
(* Strings are sequences of tokens: a token is an indivisible piece of     *)
(* text, concatenation is \o, the empty string is << >>.  JavaScript       *)
(* values are tagged records, so that null, undefined, numbers, strings,   *)
(* arrays and objects stay distinguishable.                                *)
(***************************************************************************)
EXTENDS Integers, Sequences, FiniteSets, TLC

VARIABLES
    files,                \* the file system: path -> [exists, content]
    toolCall,             \* executor harness: the last call handed to executeTool
    toolOutcome,          \* executor harness: what that call did
    messages,             \* App state: the visible message list
    isLoading,            \* App state: a turn is in flight
    pc,                   \* position of the turn's async chain
    turn,                 \* handleSubmit's closure: userInput and the captured messages
    depth,                \* handleToolCalls: its depth parameter
    message,              \* handleToolCalls: the reply whose tool calls are resolved
    idx,                  \* handleToolCalls: position of the for loop in message.tool_calls
    conversationMessages, \* handleToolCalls: the request being built
    conversationFinished, \* handleToolCalls: local flag
    finishedSummary,      \* handleToolCalls: local string
    lastRequest,          \* the messages of the newest completion request of the turn,
                          \* kept by SpecWire only
    lastReply,            \* the newest reply received, with the depth it arrived at
    trace,                \* per turn: the number of completion requests, the calls
                          \* executed since the newest reply, and how the turn ended
    turns,                \* number of turns started
    jobs,                 \* the asynchronous handlers of !, /logs and /config set
                          \* commands, in the order they were started
    maxRecursionDepth,    \* configManager: config.general.maxRecursionDepth
    input,                \* App state: the text of the input box
    commandHistory,       \* App state: the submitted lines
    historyIndex,         \* App state: position of the arrow keys in commandHistory
    lastSubmit,           \* the newest call of handleSubmit: its value, and
                          \* whether a turn was in flight
    exitPressCount,       \* App state: presses of Ctrl+C and Escape so far
    exited,               \* process.exit was called
    keys,                 \* the Ctrl+C and Escape presses made in a row
    config,               \* configManager: the rest of this.config
    configFile,           \* the file ../config.json
    currentModel,         \* App state: the model of the next request
    notifyCount,          \* number of calls of notifyWatchers
    watchers,             \* configManager: the callbacks of this.watchers
    calls,                \* for each callback, the configurations it was called with
    fetch,                \* the newest call of fetchAvailableModels and its result
    configUI              \* the state of the ConfigUI component

vars == <<files, toolCall, toolOutcome, messages, isLoading, pc, turn, depth,
          message, idx, conversationMessages, conversationFinished,
          finishedSummary, lastRequest, lastReply, trace, turns, jobs,
          maxRecursionDepth, input, commandHistory, historyIndex, lastSubmit,
          exitPressCount, exited, keys, config, configFile, currentModel,
          notifyCount, watchers, calls, fetch, configUI>>

shellVars == <<jobs, maxRecursionDepth>>

uiVars == <<input, commandHistory, historyIndex, lastSubmit, exitPressCount,
            exited, keys>>

cfgVars == <<config, configFile, currentModel, notifyCount, watchers, calls,
             fetch, configUI>>

toolVars == <<toolCall, toolOutcome>>

driverVars == <<messages, isLoading, pc, turn, depth, message, idx,
                conversationMessages, conversationFinished, finishedSummary,
                lastRequest, lastReply, trace, turns>>

----
(* Bounds *)

\* longest tool-call batch the completion service sends in one reply
MaxBatch == 2

\* number of turns one behaviour starts
MaxTurns == 1

\* number of !, /logs and /config set commands one behaviour submits
MaxJobs == 1

\* most entries of a batch that calls the finished tool more than once
MaxFinishBatch == 3

\* the Ctrl+C and Escape presses made in a row
MaxKeys == 3

\* the calls of handleSubmit that return at once
MaxSubmits == 2

\* the lines submitted before the last /model command
MaxCommands == 2

\* the calls of saveConfig
MaxSaves == 3

\* most models of a model list of the service
MaxModels == 3

\* most lines of an old or new content handed to createDiff
MaxDiffLines == 2

\* most lines of the content of a file that write_file creates
MaxPreviewLines == 12

----
(* JavaScript values *)

Null == [t |-> "null"]

Undefined == [t |-> "undefined"]

Str(s) == [t |-> "string", v |-> s]

Num(n) == [t |-> "number", v |-> n]

Arr(a) == [t |-> "array", v |-> a]

\* an arguments object of a tool call: the four properties the handlers read;
\* a property the object does not have reads as undefined
Obj(path, content, command, summary) ==
    [t |-> "object", path |-> path, content |-> content,
     command |-> command, summary |-> summary]

\* a value in a boolean position (if, ||, ?:)
Truthy(x) ==
    CASE x.t = "null" -> FALSE
      [] x.t = "undefined" -> FALSE
      [] x.t = "string" -> x.v # << >>
      [] x.t = "number" -> x.v # 0
      [] OTHER -> TRUE

\* a value inside a template literal `${x}`
ToText(x) ==
    CASE x.t = "null" -> <<"null">>
      [] x.t = "undefined" -> <<"undefined">>
      [] x.t = "string" -> x.v
      [] x.t = "number" -> <<ToString(x.v)>>
      [] OTHER -> <<"[object Object]">>

\* args.<key>: reading a property of null or undefined throws a TypeError
CanRead(args) == args.t \notin {"null", "undefined"}

Prop(args, key) ==
    IF args.t # "object" THEN Undefined
    ELSE CASE key = "path" -> args.path
           [] key = "content" -> args.content
           [] key = "command" -> args.command
           [] key = "summary" -> args.summary
           [] OTHER -> Undefined

\* String.prototype.startsWith
StartsWith(s, p) == Len(s) >= Len(p) /\ SubSeq(s, 1, Len(p)) = p

\* String.prototype.replace(p, "") with a string pattern of one token:
\* removes the first occurrence only
RECURSIVE RemoveFirst(_, _)
RemoveFirst(s, tok) ==
    IF s = << >> THEN << >>
    ELSE IF Head(s) = tok THEN Tail(s)
    ELSE <<Head(s)>> \o RemoveFirst(Tail(s), tok)

\* String.prototype.toLowerCase on the answers the operator can type
ToLowerCase(s) ==
    [i \in 1..Len(s) |->
        CASE s[i] \in {"y", "Y"} -> "y"
          [] s[i] \in {"yes", "YES", "Yes", "yEs"} -> "yes"
          [] s[i] \in {"n", "N"} -> "n"
          [] OTHER -> s[i]]

----
(* The file system and the other things a tool touches *)

\* the paths the file system knows; any other path cannot be read or written
Paths == {"notes.txt"}

NoFile == [exists |-> FALSE, content |-> << >>]

File(c) == [exists |-> TRUE, content |-> c]

IsPath(p) == p.t = "string" /\ Len(p.v) = 1 /\ p.v[1] \in Paths

\* Deno.readTextFile(p): the content, or an Error
ReadTextFile(fs, p, io) ==
    IF p.t # "string" THEN [ok |-> FALSE, message |-> <<"The path argument must be a string">>]
    ELSE IF ~IsPath(p) THEN [ok |-> FALSE, message |-> <<"No such file or directory">>]
    ELSE IF ~fs[p.v[1]].exists THEN [ok |-> FALSE, message |-> <<"No such file or directory">>]
    ELSE IF io.readFails THEN [ok |-> FALSE, message |-> <<"Permission denied">>]
    ELSE [ok |-> TRUE, content |-> fs[p.v[1]].content]

\* Deno.writeTextFile(p, c): the new file system, or an Error
WriteTextFile(fs, p, c, io) ==
    IF p.t # "string" THEN [ok |-> FALSE, message |-> <<"The path argument must be a string">>]
    ELSE IF ~IsPath(p) THEN [ok |-> FALSE, message |-> <<"No such file or directory">>]
    ELSE IF c.t # "string" THEN [ok |-> FALSE, message |-> <<"The data argument must be a string">>]
    ELSE IF io.writeFails THEN [ok |-> FALSE, message |-> <<"Permission denied">>]
    ELSE [ok |-> TRUE, files |-> [fs EXCEPT ![p.v[1]] = File(c.v)]]

\* the error message of reading a property of null or undefined
NullRead == <<"Cannot read properties of null">>

\* a handler that ran to its return statement, with what it did on the way;
\* shown is the text it put before the operator (write_file sets it)
Returned(result, fs, prompted, wrote) ==
    [raised |-> FALSE, result |-> result, files |-> fs,
     prompted |-> prompted, wrote |-> wrote, shown |-> << >>]

\* a handler that threw an Error with this message
Threw(msg, fs, prompted) ==
    [raised |-> TRUE, result |-> msg, files |-> fs,
     prompted |-> prompted, wrote |-> FALSE, shown |-> << >>]

\* newContent.split('\n') needs a string
CanSplit(x) == x.t = "string"

Approved(answer) ==
    /\ answer.t = "string"
    /\ ToLowerCase(answer.v) \in {<<"y">>, <<"yes">>}

----
(* Texts of several lines, createDiff and the creation preview *)

\* the token that stands for the newline character
NL == "\n"

\* "=".repeat(50)
Rule == "=================================================="

\* String.prototype.split('\n'): the lines of a text; the empty text has one
\* empty line, a text that ends in a newline has an empty last line
RECURSIVE Split(_)
Split(s) ==
    IF \A k \in DOMAIN s : s[k] # NL THEN <<s>>
    ELSE LET k == CHOOSE x \in DOMAIN s :
                      s[x] = NL /\ \A y \in 1..(x - 1) : s[y] # NL
         IN <<SubSeq(s, 1, k - 1)>> \o Split(SubSeq(s, k + 1, Len(s)))

\* Array.prototype.join('\n')
RECURSIVE Join(_)
Join(lines) ==
    IF lines = << >> THEN << >>
    ELSE IF Len(lines) = 1 THEN lines[1]
    ELSE lines[1] \o <<NL>> \o Join(Tail(lines))

Max(a, b) == IF a >= b THEN a ELSE b

Min(a, b) == IF a <= b THEN a ELSE b

\* lines[i] || '' with i counted from 1: a missing line reads as the empty line
LineOr(lines, i) == IF i <= Len(lines) THEN lines[i] ELSE << >>

\* the body of the for loop of createDiff for the index i - 1
DiffEntry(oldLines, newLines, i) ==
    IF LineOr(oldLines, i) = LineOr(newLines, i) THEN << >>
    ELSE (IF i <= Len(oldLines)
          THEN <<"- ", ToString(i), ": ">> \o oldLines[i] \o <<NL>> ELSE << >>)
         \o (IF i <= Len(newLines)
             THEN <<"+ ", ToString(i), ": ">> \o newLines[i] \o <<NL>> ELSE << >>)

\* the for loop of createDiff from index i - 1 on
RECURSIVE DiffEntries(_, _, _)
DiffEntries(oldLines, newLines, i) ==
    IF i > Max(Len(oldLines), Len(newLines)) THEN << >>
    ELSE DiffEntry(oldLines, newLines, i) \o DiffEntries(oldLines, newLines, i + 1)

\* hasChanges after the loop
HasChanges(oldLines, newLines) ==
    \E i \in 1..Max(Len(oldLines), Len(newLines)) :
        LineOr(oldLines, i) # LineOr(newLines, i)

\* createDiff that never says that nothing changed
createDiff_silent(oldContent, newContent, filePath) ==
    <<"Changes to ">> \o filePath \o <<":", NL, Rule, NL>>
    \o DiffEntries(Split(oldContent), Split(newContent), 1)
    \o <<Rule>>

createDiff(oldContent, newContent, filePath) ==
    LET oldLines == Split(oldContent)
        newLines == Split(newContent)
    IN <<"Changes to ">> \o filePath \o <<":", NL, Rule, NL>>
       \o DiffEntries(oldLines, newLines, 1)
       \o (IF ~HasChanges(oldLines, newLines)
           THEN <<"No changes detected.", NL>> ELSE << >>)
       \o <<Rule>>

\* the number of lines the creation preview shows
PreviewLines == 10

\* the preview without its remainder line
CreationPreview_short(newContent, filePath) ==
    <<"Creating new file: ">> \o filePath \o <<NL, Rule, NL, "Content preview:", NL>>
    \o Join(SubSeq(Split(newContent), 1, Min(PreviewLines, Len(Split(newContent)))))
    \o <<NL, Rule>>

\* diffDisplay of write_file for a file that could not be read
CreationPreview(newContent, filePath) ==
    LET lines == Split(newContent)
    IN <<"Creating new file: ">> \o filePath \o <<NL, Rule, NL, "Content preview:", NL>>
       \o Join(SubSeq(lines, 1, Min(PreviewLines, Len(lines))))
       \o (IF Len(lines) > PreviewLines
           THEN <<NL, "... (", ToString(Len(lines) - PreviewLines), " more lines)">>
           ELSE << >>)
       \o <<NL, Rule>>

----
(* executeTool *)

read_file(args, io, fs) ==
    IF ~CanRead(args) THEN Threw(NullRead, fs, FALSE)
    ELSE LET r == ReadTextFile(fs, Prop(args, "path"), io)
         IN IF ~r.ok THEN Threw(r.message, fs, FALSE)
            ELSE Returned(<<"File contents of ">> \o ToText(Prop(args, "path"))
                              \o <<":\n">> \o r.content,
                          fs, FALSE, FALSE)

write_file(args, io, fs) ==
    \* the inner try swallows a failed read of the old content, the TypeError
    \* of reading args.path from null included: the file then counts as new
    LET old == IF CanRead(args) THEN ReadTextFile(fs, Prop(args, "path"), io)
               ELSE [ok |-> FALSE, message |-> NullRead]
        isNewFile == ~old.ok
    IN IF ~CanRead(args) THEN Threw(NullRead, fs, FALSE)
       ELSE LET newContent == Prop(args, "content")
                filePath == ToText(Prop(args, "path"))
                diffDisplay == IF isNewFile THEN CreationPreview(newContent.v, filePath)
                               ELSE createDiff(old.content, newContent.v, filePath)
            IN IF ~CanSplit(newContent)
               THEN Threw(<<"newContent.split is not a function">>, fs, FALSE)
               ELSE IF Approved(io.answer)
               THEN LET w == WriteTextFile(fs, Prop(args, "path"), newContent, io)
                    IN IF ~w.ok
                       THEN [Threw(w.message, fs, TRUE) EXCEPT !.shown = diffDisplay]
                       ELSE [Returned(<<"OK Successfully wrote to ">> \o filePath,
                                      w.files, TRUE, TRUE)
                                EXCEPT !.shown = diffDisplay]
               ELSE [Returned(<<"X File write cancelled by user">>, fs, TRUE, FALSE)
                        EXCEPT !.shown = diffDisplay]

list_files(args, io, fs) ==
    IF ~CanRead(args) THEN Threw(NullRead, fs, FALSE)
    ELSE LET dirPath == IF Truthy(Prop(args, "path")) THEN Prop(args, "path")
                        ELSE Str(<<".">>)
         IN IF dirPath # Str(<<".">>) \/ io.readFails
            THEN Threw(<<"No such file or directory">>, fs, FALSE)
            ELSE Returned(<<"Contents of ">> \o ToText(dirPath) \o <<":\n">>
                              \o (IF fs["notes.txt"].exists
                                  THEN <<"[file] ", "notes.txt">> ELSE << >>),
                          fs, FALSE, FALSE)

\* run_command that throws when the exit code is not 0
run_command_throw(args, io, fs) ==
    IF ~CanRead(args) THEN Threw(NullRead, fs, FALSE)
    ELSE IF Prop(args, "command").t # "string"
    THEN Threw(<<"Invalid argument">>, fs, FALSE)
    ELSE IF io.spawnFails
    THEN Threw(<<"Failed to spawn sh">>, fs, FALSE)
    ELSE IF io.code # 0
    THEN Threw(<<"Command failed (exit code ", ToString(io.code), "):\n">>
                   \o io.stderr, fs, FALSE)
    ELSE Returned(<<"Command output:\n">> \o io.stdout, fs, FALSE, FALSE)

\* run_command that returns the output of the command and nothing else
run_command_bare(args, io, fs) ==
    IF ~CanRead(args) THEN Threw(NullRead, fs, FALSE)
    ELSE IF Prop(args, "command").t # "string"
    THEN Threw(<<"Invalid argument">>, fs, FALSE)
    ELSE IF io.spawnFails
    THEN Threw(<<"Failed to spawn sh">>, fs, FALSE)
    ELSE Returned(IF io.code # 0 THEN io.stderr ELSE io.stdout, fs, FALSE, FALSE)

run_command(args, io, fs) ==
    IF ~CanRead(args) THEN Threw(NullRead, fs, FALSE)
    ELSE IF Prop(args, "command").t # "string"
    THEN Threw(<<"Invalid argument">>, fs, FALSE)
    ELSE IF io.spawnFails
    THEN Threw(<<"Failed to spawn sh">>, fs, FALSE)
    ELSE IF io.code # 0
    THEN Returned(<<"Command failed (exit code ", ToString(io.code), "):\n">>
                      \o io.stderr, fs, FALSE, FALSE)
    ELSE Returned(<<"Command output:\n">> \o io.stdout, fs, FALSE, FALSE)

finished(args, io, fs) ==
    IF ~CanRead(args) THEN Threw(NullRead, fs, FALSE)
    ELSE Returned(<<"CONVERSATION_COMPLETE:">> \o ToText(Prop(args, "summary")),
                  fs, FALSE, FALSE)

\* the switch with a default case that throws
Handler_strict(name, args, io, fs) ==
    CASE name = "read_file" -> read_file(args, io, fs)
      [] name = "write_file" -> write_file(args, io, fs)
      [] name = "list_files" -> list_files(args, io, fs)
      [] name = "run_command" -> run_command(args, io, fs)
      [] name = "finished" -> finished(args, io, fs)
      [] OTHER -> Threw(<<"Unknown tool: ", name>>, fs, FALSE)

\* the switch of executeTool
Handler(name, args, io, fs) ==
    CASE name = "read_file" -> read_file(args, io, fs)
      [] name = "write_file" -> write_file(args, io, fs)
      [] name = "list_files" -> list_files(args, io, fs)
      [] name = "run_command" -> run_command(args, io, fs)
      [] name = "finished" -> finished(args, io, fs)
      [] OTHER -> Returned(<<"Unknown tool: ", name>>, fs, FALSE, FALSE)

\* no catch clause: the Error leaves executeTool
Catch_rethrow(name, h) == h

\* the catch clause of executeTool: an Error becomes a result string
Catch(name, h) ==
    IF h.raised
    THEN [Returned(<<"Error executing ", name, ": ">> \o h.result,
                   h.files, h.prompted, FALSE)
             EXCEPT !.shown = h.shown]
    ELSE h

executeTool(name, args, io, fs) == Catch(name, Handler(name, args, io, fs))

\* write_file of the top-level tools.ts: no approval prompt
write_file_root(args, io, fs) ==
    IF ~CanRead(args) THEN Threw(NullRead, fs, FALSE)
    ELSE LET w == WriteTextFile(fs, Prop(args, "path"), Prop(args, "content"), io)
         IN IF ~w.ok THEN Threw(w.message, fs, FALSE)
            ELSE Returned(<<"Successfully wrote to ">>
                              \o ToText(Prop(args, "path")),
                          w.files, FALSE, TRUE)

\* the executeTool of the top-level tools.ts, which the top-level main.tsx
\* calls: it has no finished tool
executeToolRoot(name, args, io, fs) ==
    Catch(name,
          CASE name = "read_file" -> read_file(args, io, fs)
            [] name = "write_file" -> write_file_root(args, io, fs)
            [] name = "list_files" -> list_files(args, io, fs)
            [] name = "run_command" -> run_command(args, io, fs)
            [] OTHER -> Returned(<<"Unknown tool: ", name>>, fs, FALSE, FALSE))

----
(* The executor on its own: any tool call, any outcome of the environment *)

\* what the environment does during one call: whether a read, a write or a
\* spawn fails, what the operator answers at the prompt (null: end of input),
\* and what the subprocess returns
IOs ==
    [readFails : BOOLEAN, writeFails : BOOLEAN, spawnFails : BOOLEAN,
     answer : {Null, Str(<< >>), Str(<<"y">>), Str(<<"YES">>), Str(<<"n">>),
               Str(<<"yes please">>)},
     code : {0, 1, 127}, stdout : {<<"out">>, <<"CONVERSATION_COMPLETE:", "done">>},
     stderr : {<<"err">>}]

\* the environment of a turn in which nothing fails and nobody answers
QuietIO ==
    [readFails |-> FALSE, writeFails |-> FALSE, spawnFails |-> FALSE,
     answer |-> Null, code |-> 0, stdout |-> <<"out">>, stderr |-> <<"err">>]

\* the environment of a turn: nothing fails, nobody answers a prompt
TurnIOs == {QuietIO}

PathValues == {Undefined, Str(<<"notes.txt">>), Str(<<"/no/such/file">>), Num(7)}

ContentValues == {Undefined, Null, Num(7), Str(<< >>), Str(<<"a">>), Str(<<"b">>)}

SummaryValues == {Undefined, Str(<< >>), Str(<<"Listed 3 files">>)}

\* the environment as far as the tool looks at it
IOsFor(name) ==
    {io \in IOs :
        /\ name \notin {"read_file", "write_file", "list_files"} => ~io.readFails
        /\ name # "write_file" => ~io.writeFails /\ io.answer = Null
        /\ name # "run_command" => ~io.spawnFails /\ io.code = 0 /\ io.stdout = <<"out">>}

\* the name and the parsed arguments of a call: well-formed arguments,
\* missing ones, wrongly typed ones, null, and a name that is no tool
ToolInputs ==
    LET noObject == {Null, Num(5)}
        of(name, objs) == {[name |-> name, arguments |-> a] : a \in objs \cup noObject}
    IN of("read_file", {Obj(p, Undefined, Undefined, Undefined) : p \in PathValues})
       \cup of("write_file",
               {Obj(p, c, Undefined, Undefined) : p \in PathValues, c \in ContentValues})
       \cup of("list_files",
               {Obj(p, Undefined, Undefined, Undefined) :
                    p \in {Undefined, Str(<<".">>), Str(<<"notes.txt">>)}})
       \cup of("run_command",
               {Obj(Undefined, Undefined, c, Undefined) : c \in {Undefined, Str(<<"ls">>)}})
       \cup of("finished",
               {Obj(Undefined, Undefined, Undefined, sm) : sm \in SummaryValues})
       \cup of("search_web", {Obj(Undefined, Undefined, Undefined, Undefined)})

NoCall == [name |-> "", arguments |-> Undefined, io |-> QuietIO, impl |-> "none",
           before |-> [p \in Paths |-> NoFile]]

NoOutcome == Returned(<< >>, [p \in Paths |-> NoFile], FALSE, FALSE)

\* executeTool of src/tools.ts applied to one call
ExecuteTool ==
    \E c \in ToolInputs : \E io \in IOsFor(c.name) :
        \E out \in {executeTool(c.name, c.arguments, io, files)} :
           /\ toolCall' = [name |-> c.name, arguments |-> c.arguments, io |-> io,
                           impl |-> "src", before |-> files]
           /\ toolOutcome' = out
           /\ files' = out.files
           /\ UNCHANGED <<driverVars, shellVars, uiVars, cfgVars>>

\* executeTool of the top-level tools.ts applied to one call
ExecuteToolRoot ==
    \E c \in ToolInputs : \E io \in IOsFor(c.name) :
        \E out \in {executeToolRoot(c.name, c.arguments, io, files)} :
           /\ toolCall' = [name |-> c.name, arguments |-> c.arguments, io |-> io,
                           impl |-> "root", before |-> files]
           /\ toolOutcome' = out
           /\ files' = out.files
           /\ UNCHANGED <<driverVars, shellVars, uiVars, cfgVars>>

----
(* write_file on its own, for contents of several lines *)

\* the texts of n lines over the given lines
RECURSIVE TextsOf(_, _)
TextsOf(lines, n) ==
    IF n = 1 THEN lines
    ELSE {l \o <<NL>> \o t : l \in lines, t \in TextsOf(lines, n - 1)}

\* old and new contents: 1..MaxDiffLines lines, each empty, "a" or "b"
DiffContents ==
    UNION {TextsOf({<< >>, <<"a">>, <<"b">>}, n) : n \in 1..MaxDiffLines}

\* the text of the n lines "line 1" .. "line n"
NumberedLines(n) == Join([i \in 1..n |-> <<"line ", ToString(i)>>])

\* contents of 1..MaxPreviewLines lines
PreviewContents == {NumberedLines(n) : n \in 1..MaxPreviewLines}

\* a read of the old content works or not, the operator accepts or declines
DiffIOs ==
    {[QuietIO EXCEPT !.readFails = r, !.answer = a] :
        r \in BOOLEAN, a \in {Str(<<"y">>), Str(<<"n">>)}}

\* executeTool applied to a write_file call for notes.txt
WriteCall(content, io) ==
    LET args == Obj(Str(<<"notes.txt">>), Str(content), Undefined, Undefined)
    IN \E out \in {executeTool("write_file", args, io, files)} :
       /\ toolCall' = [name |-> "write_file", arguments |-> args, io |-> io,
                       impl |-> "src", before |-> files]
       /\ toolOutcome' = out
       /\ files' = out.files
       /\ UNCHANGED <<driverVars, shellVars, uiVars, cfgVars>>

\* write_file with a content of a few short lines
WriteShort == \E c \in DiffContents : \E io \in DiffIOs : WriteCall(c, io)

\* write_file with a content of up to MaxPreviewLines numbered lines
WriteLong == \E c \in PreviewContents : \E io \in DiffIOs : WriteCall(c, io)

----
(* The completion service *)

MAX_RECURSION_DEPTH == 10

SystemPrompt == <<"You are a helpful assistant">>

Sentinel == <<"CONVERSATION_COMPLETE:">>

AdvisoryText ==
    <<"I've reached the maximum number of tool calls. Please try breaking your request into smaller parts.">>

\* JSON.parse on the argument payloads the service sends: the parsed value, or
\* a SyntaxError
JSON_parse(text) ==
    CASE text = "{\"path\":\"notes.txt\"}" ->
            [ok |-> TRUE,
             value |-> Obj(Str(<<"notes.txt">>), Undefined, Undefined, Undefined)]
      [] text = "{\"summary\":\"Listed 3 files\"}" ->
            [ok |-> TRUE,
             value |-> Obj(Undefined, Undefined, Undefined, Str(<<"Listed 3 files">>))]
      [] text = "{\"summary\":\"Done\"}" ->
            [ok |-> TRUE,
             value |-> Obj(Undefined, Undefined, Undefined, Str(<<"Done">>))]
      [] text = "{\"command\":\"ls\"}" ->
            [ok |-> TRUE,
             value |-> Obj(Undefined, Undefined, Str(<<"ls">>), Undefined)]
      [] text = "{}" ->
            [ok |-> TRUE, value |-> Obj(Undefined, Undefined, Undefined, Undefined)]
      [] text = "null" -> [ok |-> TRUE, value |-> Null]
      [] OTHER -> [ok |-> FALSE, message |-> <<"Unexpected end of JSON input">>]

Function(name, arguments) == [t |-> "function", name |-> name, arguments |-> arguments]

\* the entries a reply's tool_calls can hold, without their ids: a read, the
\* finished tool, an entry that has no function field, a payload that is not
\* JSON, and a name that is no tool
CallKinds ==
    {Function("read_file", "{\"path\":\"notes.txt\"}"),
     Function("finished", "{\"summary\":\"Listed 3 files\"}"),
     Undefined,
     Function("read_file", "{\"path\":"),
     Function("search_web", "{}")}

\* the batches of 1..MaxBatch entries
RECURSIVE SeqsUpTo(_, _)
SeqsUpTo(S, n) ==
    IF n = 0 THEN {<< >>}
    ELSE LET shorter == SeqsUpTo(S, n - 1)
         IN shorter \cup {Append(q, x) : q \in {r \in shorter : Len(r) = n - 1}, x \in S}

Batches == SeqsUpTo(CallKinds, MaxBatch) \ {<< >>}

\* the entries of a batch that calls the finished tool more than once: the
\* finished tool with either summary, a read, and a payload that is not JSON
FinishKinds ==
    {Function("finished", "{\"summary\":\"Listed 3 files\"}"),
     Function("finished", "{\"summary\":\"Done\"}"),
     Function("read_file", "{\"path\":\"notes.txt\"}"),
     Function("read_file", "{\"path\":")}

IsFinished(f) == f.name = "finished"

\* the batches of up to MaxFinishBatch entries with two finished calls or more
FinishBatches ==
    {b \in SeqsUpTo(FinishKinds, MaxFinishBatch) : Len(SelectSeq(b, IsFinished)) >= 2}

\* the service gives every call of a turn an id of its own
WithIds(batch, round) ==
    [i \in 1..Len(batch) |-> [id |-> 10 * round + i, function |-> batch[i]]]

ReplyContents == {Null, Str(<< >>), Str(<<"Here you go">>)}

Reply(content, tool_calls) == [t |-> "message", content |-> content, tool_calls |-> tool_calls]

\* completion.choices[0]?.message: undefined when the service returns no
\* choice; tool_calls is absent when the model calls no tool
Replies(round) ==
    {Undefined}
    \cup {Reply(c, Undefined) : c \in ReplyContents}
    \cup {Reply(c, Arr(WithIds(b, round))) : c \in ReplyContents, b \in Batches}

\* m?.tool_calls and m?.content
ToolCallsOf(m) == IF m.t = "message" THEN m.tool_calls ELSE Undefined

ContentOf(m) == IF m.t = "message" THEN m.content ELSE Undefined

\* what the service throws when a request fails
CompletionErrors == {[isError |-> TRUE, message |-> <<"Connection error.">>]}

----
(* The turn: handleSubmit, handleUserMessage, handleToolCalls *)

Greeting == <<"Hello! I'm your AI assistant. How can I help you today?">>

Message(id, role, content) == [id |-> id, role |-> role, content |-> content]

\* an entry of the messages array of a completion request
Wire(role, content, tool_calls, tool_call_id) ==
    [role |-> role, content |-> content, tool_calls |-> tool_calls,
     tool_call_id |-> tool_call_id]

\* messages.map(msg => ({ role: msg.role, content: msg.content }))
MapMessages(msgs) ==
    [i \in 1..Len(msgs) |-> Wire(msgs[i].role, Str(msgs[i].content), Undefined, Undefined)]

\* the messages of the request handleUserMessage makes
InitialRequest(t) ==
    <<Wire("system", Str(SystemPrompt), Undefined, Undefined)>>
    \o MapMessages(t.messages)
    \o <<Wire("user", Str(t.userInput), Undefined, Undefined)>>

\* conversationMessages as handleToolCalls builds it before its loop
BuildConversation(t, m) ==
    InitialRequest(t) \o <<Wire("assistant", m.content, m.tool_calls, Undefined)>>

\* a || b for message texts
OrElse(content, fallback) == IF Truthy(content) THEN ToText(content) ELSE fallback

NoTrace == [requests |-> 0, executed |-> << >>, ended |-> "no"]

NoTurn == [userInput |-> << >>, messages |-> << >>]

NoReply == [message |-> Undefined, depth |-> 0, requests |-> 0]

UserInputs == {<<"read notes.txt">>}

\* the end of a turn that appends its message twice
EndTurn_twice(content, how, t) ==
    /\ messages' = messages \o <<Message(Len(turn.messages) + 2, "assistant", content),
                                  Message(Len(turn.messages) + 2, "assistant", content)>>
    /\ isLoading' = FALSE
    /\ pc' = "idle"
    /\ trace' = [t EXCEPT !.ended = how]

\* the end of a turn without the finally clause of handleSubmit
EndTurn_loading(content, how, t) ==
    /\ messages' = Append(messages, Message(Len(turn.messages) + 2, "assistant", content))
    /\ isLoading' = TRUE
    /\ pc' = "idle"
    /\ trace' = [t EXCEPT !.ended = how]

\* setMessages(prev => [...prev, m]) with the id computed from the closure's
\* messages, then the finally clause of handleSubmit; t is the turn's log
EndTurn(content, how, t) ==
    /\ messages' = Append(messages, Message(Len(turn.messages) + 2, "assistant", content))
    /\ isLoading' = FALSE
    /\ pc' = "idle"
    /\ trace' = [t EXCEPT !.ended = how]

\* the message without its "Error: " prefix
ErrorText_plain(e) == IF e.isError THEN e.message ELSE <<"Unknown error occurred">>

\* the catch clause of handleSubmit
ErrorText(e) ==
    <<"Error: ">> \o (IF e.isError THEN e.message ELSE <<"Unknown error occurred">>)

\* no batch is being resolved: the locals of handleToolCalls hold nothing
NoBatch ==
    /\ message' = Undefined
    /\ idx' = 0
    /\ conversationMessages' = << >>
    /\ conversationFinished' = FALSE
    /\ finishedSummary' = << >>

\* lines of blanks only
BlankInputs == {<< >>, <<" ">>}

\* String.prototype.trim: blanks at both ends go
RECURSIVE TrimStart(_)
TrimStart(s) == IF s # << >> /\ Head(s) = " " THEN TrimStart(Tail(s)) ELSE s

RECURSIVE TrimEnd(_)
TrimEnd(s) ==
    IF s # << >> /\ s[Len(s)] = " " THEN TrimEnd(SubSeq(s, 1, Len(s) - 1)) ELSE s

Trim(s) == TrimEnd(TrimStart(s))

\* handleSubmit that returns for no value
Accepts_always(value) == TRUE

\* if (!value.trim() || isLoading) return
Accepts(value) == Trim(value) # << >> /\ ~isLoading

NoSubmit == [n |-> 0, value |-> << >>, loading |-> FALSE]

\* a call of handleSubmit: the n-th, with this value, made while isLoading
\* was as it is
Submit(value) == [n |-> lastSubmit.n + 1, value |-> value, loading |-> isLoading]

\* the first statements of handleSubmit for an accepted value; typing the
\* line and pressing Enter also went through useInput, which clears the
\* count of exit presses
Submitted(value) ==
    /\ commandHistory' = Append(commandHistory, Trim(value))
    /\ historyIndex' = -1
    /\ input' = << >>
    /\ lastSubmit' = Submit(value)
    /\ exitPressCount' = 0
    /\ keys' = << >>
    /\ UNCHANGED exited

\* handleSubmit for a chat message, up to the request of handleUserMessage
handleSubmit(rec) ==
    \E value \in UserInputs \cup BlankInputs :
        /\ Accepts(value)
        /\ turns < MaxTurns
        /\ messages' = Append(messages, Message(Len(messages) + 1, "user", value))
        /\ isLoading' = TRUE
        /\ turn' = [userInput |-> value, messages |-> messages]
        /\ lastRequest' = IF rec
                          THEN InitialRequest([userInput |-> value, messages |-> messages])
                          ELSE << >>
        /\ trace' = [NoTrace EXCEPT !.requests = 1]
        /\ lastReply' = NoReply
        /\ pc' = "awaitCompletion"
        /\ turns' = turns + 1
        /\ depth' = 0
        /\ NoBatch
        /\ Submitted(value)
        /\ UNCHANGED <<files, toolVars, shellVars, cfgVars>>

\* the depth check off by one
ReachedCeiling_off(d) == d > MAX_RECURSION_DEPTH

\* if (depth >= APP_CONFIG.MAX_RECURSION_DEPTH)
ReachedCeiling(d) == d >= MAX_RECURSION_DEPTH

\* the test of the reply itself instead of its tool_calls
HasToolCalls_any(m) == m.t = "message"

\* if (message?.tool_calls)
HasToolCalls(m) == Truthy(ToolCallsOf(m))

\* the follow-up request of handleToolCalls
FollowUp(rec, conv, t) ==
    /\ lastRequest' = IF rec THEN conv ELSE << >>
    /\ pc' = "awaitFollowUp"
    /\ trace' = [t EXCEPT !.requests = @ + 1]
    /\ UNCHANGED <<messages, isLoading>>

\* the start of handleToolCalls(m, ..., d): the depth check, then the request
\* under construction and the locals of the loop; a tool_calls that is no
\* array cannot be iterated (TypeError), an empty one leaves the loop at once
handleToolCalls(rec, m, d) ==
    LET t == [trace EXCEPT !.executed = << >>]
    IN /\ depth' = d
       /\ message' = m
       /\ IF ReachedCeiling(d)
          THEN /\ EndTurn(AdvisoryText, "ceiling", t)
               /\ UNCHANGED <<idx, conversationMessages, conversationFinished,
                              finishedSummary, lastRequest>>
          ELSE IF ToolCallsOf(m).t # "array"
          THEN /\ EndTurn(ErrorText([isError |-> TRUE,
                                     message |-> <<"message.tool_calls is not iterable">>]),
                          "batchError", t)
               /\ UNCHANGED <<idx, conversationMessages, conversationFinished,
                              finishedSummary, lastRequest>>
          ELSE /\ conversationMessages' = BuildConversation(turn, m)
               /\ conversationFinished' = FALSE
               /\ finishedSummary' = << >>
               /\ idx' = 1
               /\ IF m.tool_calls.v = << >>
                  THEN FollowUp(rec, BuildConversation(turn, m), t)
                  ELSE /\ pc' = "toolLoop"
                       /\ trace' = t
                       /\ UNCHANGED <<messages, isLoading, lastRequest>>

\* a reply to a completion request: tool calls go to handleToolCalls at depth
\* d, anything else is the final assistant message
OnReply(rec, m, d, fallback) ==
    /\ lastReply' = [message |-> m, depth |-> d, requests |-> trace.requests]
    /\ IF HasToolCalls(m)
       THEN handleToolCalls(rec, m, d)
       ELSE /\ EndTurn(OrElse(ContentOf(m), fallback), "reply",
                       [trace EXCEPT !.executed = << >>])
            /\ NoBatch
            /\ UNCHANGED <<depth, lastRequest>>
    /\ UNCHANGED <<files, toolVars, shellVars, uiVars, cfgVars, turn, turns>>

\* handleUserMessage after its request returned
InitialReply(rec) ==
    /\ pc = "awaitCompletion"
    /\ \E m \in Replies(trace.requests) :
           OnReply(rec, m, 0, <<"Sorry, I couldn't process that request.">>)

\* handleUserMessage after its request returned a batch that calls the
\* finished tool more than once
FinishedReply ==
    /\ pc = "awaitCompletion"
    /\ \E c \in ReplyContents : \E b \in FinishBatches :
           OnReply(FALSE, Reply(c, Arr(WithIds(b, trace.requests))), 0,
                   <<"Sorry, I couldn't process that request.">>)

\* handleToolCalls after its follow-up request returned
FollowUpReply(rec) ==
    /\ pc = "awaitFollowUp"
    /\ \E m \in Replies(trace.requests) :
           OnReply(rec, m, depth + 1,
                   <<"I completed the task but couldn't provide a final response.">>)

\* a completion request fails: the error leaves handleUserMessage and
\* handleSubmit catches it
CompletionFails ==
    /\ pc \in {"awaitCompletion", "awaitFollowUp"}
    /\ \E e \in CompletionErrors : EndTurn(ErrorText(e), "completionError", trace)
    /\ NoBatch
    /\ UNCHANGED <<files, toolVars, shellVars, uiVars, cfgVars, turn, depth,
                   lastRequest, lastReply, turns>>


\* what the loop body of handleToolCalls does with entry tc: nothing when it
\* has no function; otherwise JSON.parse (which can throw), executeTool, the
\* test for the finished signal, and the push of the tool message
LoopBody(tc, io, fs, conv, fin, summary) ==
    IF ~Truthy(tc.function)
    THEN [thrown |-> FALSE, ran |-> FALSE, files |-> fs, conv |-> conv,
          fin |-> fin, summary |-> summary, error |-> << >>]
    ELSE LET parsed == JSON_parse(tc.function.arguments)
         IN IF ~parsed.ok
            THEN [thrown |-> TRUE, ran |-> FALSE, files |-> fs, conv |-> conv,
                  fin |-> fin, summary |-> summary, error |-> parsed.message]
            ELSE LET out == executeTool(tc.function.name, parsed.value, io, fs)
                     done == StartsWith(out.result, Sentinel)
                 IN IF out.raised
                    THEN [thrown |-> TRUE, ran |-> TRUE, files |-> out.files,
                          conv |-> conv, fin |-> fin, summary |-> summary,
                          error |-> out.result]
                    ELSE [thrown |-> FALSE, ran |-> TRUE, files |-> out.files,
                          conv |-> Append(conv, Wire("tool", Str(out.result),
                                                     Undefined, Num(tc.id))),
                          fin |-> fin \/ done,
                          summary |-> IF done THEN RemoveFirst(out.result, Sentinel[1])
                                      ELSE summary,
                          error |-> << >>]

\* one iteration of the for loop of handleToolCalls, and after the last
\* iteration the rest of the method: the final message when a tool signalled
\* the end, the follow-up request otherwise
ToolLoopStep(rec) ==
    /\ pc = "toolLoop"
    /\ idx <= Len(message.tool_calls.v)
    /\ \E io \in TurnIOs :
        LET tc == message.tool_calls.v[idx]
            b == LoopBody(tc, io, files, conversationMessages,
                          conversationFinished, finishedSummary)
            ran == [trace EXCEPT !.executed = IF b.ran THEN Append(@, tc.id) ELSE @]
        IN /\ files' = b.files
           /\ conversationMessages' = b.conv
           /\ conversationFinished' = b.fin
           /\ finishedSummary' = b.summary
           /\ IF b.thrown
              THEN /\ EndTurn(ErrorText([isError |-> TRUE, message |-> b.error]),
                              "batchError", ran)
                   /\ UNCHANGED <<idx, lastRequest>>
              ELSE IF idx < Len(message.tool_calls.v)
              THEN /\ idx' = idx + 1
                   /\ trace' = ran
                   /\ UNCHANGED <<messages, isLoading, pc, lastRequest>>
              ELSE IF b.fin
              THEN /\ EndTurn(OrElse(message.content, <<"Task completed: ">> \o b.summary),
                              "finished", ran)
                   /\ idx' = idx + 1
                   /\ UNCHANGED lastRequest
              ELSE /\ FollowUp(rec, b.conv, ran)
                   /\ idx' = idx + 1
    /\ UNCHANGED <<toolVars, shellVars, uiVars, cfgVars, turn, depth, message,
                   lastReply, turns>>

----
(* Commands: handleSubmit for a line that starts with ! or /, and the
   asynchronous handlers these commands start.  None of them sets isLoading. *)

\* defaultConfig.general.maxRecursionDepth
DefaultMaxRecursionDepth == 10

\* the values /config set general.maxRecursionDepth is given
ConfigDepths == {2}

BashCommands == {"ls"}

\* what the subprocess of a ! command does
BashIOs == {QuietIO, [QuietIO EXCEPT !.code = 1]}

Job(kind, arg, len) == [kind |-> kind, arg |-> arg, len |-> len, state |-> "queued"]

\* handleSubmit for a command: the user message, the response of the
\* synchronous handler, and the call of result.asyncHandler()
Command(value, response, job) ==
    /\ Accepts(value)
    /\ Len(jobs) < MaxJobs
    /\ messages' = messages \o <<Message(Len(messages) + 1, "user", value),
                                  Message(Len(messages) + 2, "assistant", response)>>
    /\ jobs' = Append(jobs, job)
    /\ Submitted(value)
    /\ UNCHANGED <<files, toolVars, isLoading, pc, turn, depth, message, idx,
                   conversationMessages, conversationFinished, finishedSummary,
                   lastRequest, lastReply, trace, turns, maxRecursionDepth, cfgVars>>

\* the asynchronous handler of job i appends its message
JobDone(i, content) ==
    /\ jobs' = [jobs EXCEPT ![i].state = "done"]
    /\ messages' = Append(messages, Message(jobs[i].len + 3, "assistant", content))
    /\ UNCHANGED <<toolVars, isLoading, pc, turn, depth, message, idx,
                   conversationMessages, conversationFinished, finishedSummary,
                   lastRequest, lastReply, trace, turns, uiVars>>

\* BashCommandHandler.handleCommand
handleBashCommand ==
    \E cmd \in BashCommands :
        Command(<<"!", cmd>>, <<"Executing bash command: ", cmd>>,
                Job("bash", cmd, Len(messages)))

\* the asyncHandler of a ! command calls executeTool: the subprocess starts
BashStart ==
    \E i \in DOMAIN jobs :
        /\ jobs[i].kind = "bash"
        /\ jobs[i].state = "queued"
        /\ jobs' = [jobs EXCEPT ![i].state = "running"]
        /\ UNCHANGED <<files, toolVars, driverVars, maxRecursionDepth, uiVars, cfgVars>>

\* executeTool returns to the asyncHandler of a ! command
BashDone ==
    \E i \in DOMAIN jobs : \E io \in BashIOs :
        /\ jobs[i].kind = "bash"
        /\ jobs[i].state = "running"
        /\ LET out == executeTool("run_command",
                                  Obj(Undefined, Undefined, Str(<<jobs[i].arg>>), Undefined),
                                  io, files)
           IN /\ files' = out.files
              /\ JobDone(i, <<"Command: ", jobs[i].arg, NL>> \o out.result)
        /\ UNCHANGED <<maxRecursionDepth, cfgVars>>

\* SlashCommandHandler.handleLogsCommand
handleLogsCommand ==
    Command(<<"/logs">>, <<"Reading last ", "20", " log entries...">>,
            Job("logs", "20", Len(messages)))

\* logger.readLog returns to the asyncHandler of /logs
LogsDone ==
    \E i \in DOMAIN jobs :
        /\ jobs[i].kind = "logs"
        /\ jobs[i].state = "queued"
        /\ JobDone(i, <<"Recent log entries:", NL, "log">>)
        /\ UNCHANGED <<files, maxRecursionDepth, cfgVars>>

\* the configuration as modelled, apart from general.maxRecursionDepth:
\* providers is "openai" when that provider is enabled, "none" when no
\* provider is enabled, "missing" when the object has no providers
Config(version, defaultModel, colorScheme, providers) ==
    [version |-> version, defaultModel |-> defaultModel,
     colorScheme |-> colorScheme, providers |-> providers]

\* defaultConfig
DefaultConfig == Config("1.0.0", "gpt-4o-mini", "default", "openai")

\* ../config.json: failed counts the writes of it that failed
ConfigFile(c, d) ==
    [exists |-> TRUE, config |-> c, maxRecursionDepth |-> d, failed |-> 0]

\* the callback initializeApp registers, and two callbacks of other callers
AppWatcher == "app"

Callbacks == {AppWatcher, "w1", "w2"}

\* notifyWatchers that calls every callback ever seen, registered or not
notifyWatchers_all(c) ==
    /\ calls' = [w \in Callbacks |-> Append(calls[w], c)]
    /\ UNCHANGED <<watchers, fetch, configUI>>

\* notifyWatchers when this.config is c: each callback of the set is called
\* with this.config
notifyWatchers(c) ==
    /\ calls' = [w \in Callbacks |-> IF w \in watchers THEN Append(calls[w], c)
                                                        ELSE calls[w]]
    /\ UNCHANGED <<watchers, fetch, configUI>>

\* saveConfig(c), c with general.maxRecursionDepth d: when
\* Deno.writeTextFile succeeds, the file, this.config, and notifyWatchers,
\* whose one watcher sets the current model; when it fails, the rethrow
saveConfig(c, d, writes) ==
    IF writes
    THEN /\ configFile' = [ConfigFile(c, d) EXCEPT !.failed = configFile.failed]
         /\ config' = c
         /\ notifyCount' = notifyCount + 1
         /\ notifyWatchers(c)
         /\ currentModel' = IF AppWatcher \in watchers THEN c.defaultModel
                                                       ELSE currentModel
    ELSE /\ configFile' = [configFile EXCEPT !.failed = @ + 1]
         /\ UNCHANGED <<config, notifyCount, currentModel, watchers, calls, fetch, configUI>>

\* configManager.onConfigChange(w)
onConfigChange ==
    \E w \in Callbacks :
        /\ watchers' = watchers \cup {w}
        /\ UNCHANGED <<files, toolVars, driverVars, shellVars, uiVars, config,
                       configFile, currentModel, notifyCount, calls, fetch, configUI>>

\* a call of the function onConfigChange(w) returned
Unsubscribe ==
    \E w \in Callbacks :
        /\ watchers' = watchers \ {w}
        /\ UNCHANGED <<files, toolVars, driverVars, shellVars, uiVars, config,
                       configFile, currentModel, notifyCount, calls, fetch, configUI>>

\* the configurations handed to saveConfig
SavedConfigs == {DefaultConfig, [DefaultConfig EXCEPT !.colorScheme = "dark"]}

\* configManager.saveConfig(c)
SaveConfig ==
    \E c \in SavedConfigs : \E writes \in BOOLEAN :
        /\ notifyCount + configFile.failed < MaxSaves
        /\ saveConfig(c, maxRecursionDepth, writes)
        /\ UNCHANGED <<files, toolVars, driverVars, shellVars, uiVars>>

ConfigUpdated(k) ==
    <<"Configuration updated: ", "general.maxRecursionDepth", " = ", ToString(k)>>

\* ConfigCommandHandler.handleSetConfig for general.maxRecursionDepth
handleSetConfig ==
    \E k \in ConfigDepths :
        Command(<<"/config set general.maxRecursionDepth ", ToString(k)>>,
                <<"Updating configuration ", "general.maxRecursionDepth", "...">>,
                Job("config", k, Len(messages)))

\* setConfigValue for general.maxRecursionDepth: the value goes into the
\* object that getConfig returned, then saveConfig of that object
setConfigValue(k, writes) ==
    /\ maxRecursionDepth' = k
    /\ saveConfig(config, k, writes)

\* setConfigValue and saveConfig return to the asyncHandler of /config set
SetConfigDone ==
    \E i \in DOMAIN jobs : \E writes \in BOOLEAN :
        /\ jobs[i].kind = "config"
        /\ jobs[i].state = "queued"
        /\ setConfigValue(jobs[i].arg, writes)
        /\ JobDone(i, IF writes
                      THEN ConfigUpdated(jobs[i].arg)
                      ELSE <<"Error updating configuration: ", "write failed">>)
        /\ UNCHANGED files

\* ConfigCommandHandler.handleResetConfig without a section
handleResetConfig ==
    Command(<<"/config reset">>, <<"Resetting ", "all", " configuration...">>,
            Job("reset", "all", Len(messages)))

\* loadConfig once this.config is set, as it is since initializeApp: it
\* returns this.config and reads no file
loadConfig ==
    UNCHANGED <<config, maxRecursionDepth, currentModel, notifyCount, watchers, calls,
                fetch, configUI>>

\* the asyncHandler of /config reset: Deno.remove of the file, loadConfig
ResetConfigDone ==
    \E i \in DOMAIN jobs :
        /\ jobs[i].kind = "reset"
        /\ jobs[i].state = "queued"
        /\ IF configFile.exists
           THEN /\ configFile' = [configFile EXCEPT !.exists = FALSE]
                /\ loadConfig
                /\ JobDone(i, <<"Configuration reset to defaults">>)
           ELSE /\ JobDone(i, <<"Error resetting configuration: ", "NotFound">>)
                /\ UNCHANGED <<cfgVars, maxRecursionDepth>>
        /\ UNCHANGED files

\* a file named to /config import: whether it can be read, whether its text
\* is JSON, and the configuration it holds
Import(readable, json, c, d) ==
    [readable |-> readable, json |-> json, config |-> c, maxRecursionDepth |-> d]

ImportFiles ==
    {Import(FALSE, FALSE, DefaultConfig, 2),
     Import(TRUE, FALSE, DefaultConfig, 2),
     Import(TRUE, TRUE, Config("1.0.0", "gpt-4o", "dark", "openai"), 2),
     Import(TRUE, TRUE, Config("", "gpt-4o", "dark", "openai"), 2),
     Import(TRUE, TRUE, Config("1.0.0", "gpt-4o", "dark", "none"), 2),
     Import(TRUE, TRUE, Config("1.0.0", "gpt-4o", "dark", "missing"), 2)}

\* validateConfig that finds every configuration valid
validateConfig_lax(c) == [threw |-> FALSE, valid |-> TRUE]

\* validateConfig: Object.entries of the missing providers throws
validateConfig(c) ==
    IF c.providers = "missing"
    THEN [threw |-> TRUE, valid |-> FALSE]
    ELSE [threw |-> FALSE,
          valid |-> /\ c.version # ""
                    /\ c.defaultModel # ""
                    /\ c.providers = "openai"
                    /\ c.colorScheme # ""]

\* ConfigCommandHandler.handleImportConfig
handleImportConfig ==
    \E f \in ImportFiles :
        Command(<<"/config import ", "in.json">>,
                <<"Importing configuration from ", "in.json", "...">>,
                Job("import", f, Len(messages)))

\* the asyncHandler of /config import
ImportConfigDone ==
    \E i \in DOMAIN jobs : \E writes \in BOOLEAN :
        /\ jobs[i].kind = "import"
        /\ jobs[i].state = "queued"
        /\ LET f == jobs[i].arg
               validation == validateConfig(f.config)
           IN IF ~f.readable \/ ~f.json \/ validation.threw
              THEN /\ writes
                   /\ JobDone(i, <<"Error importing configuration: ", "error">>)
                   /\ UNCHANGED <<cfgVars, maxRecursionDepth>>
              ELSE IF ~validation.valid
              THEN /\ writes
                   /\ JobDone(i, <<"Invalid configuration file:", NL, "errors">>)
                   /\ UNCHANGED <<cfgVars, maxRecursionDepth>>
              ELSE /\ saveConfig(f.config, f.maxRecursionDepth, writes)
                   /\ maxRecursionDepth' = IF writes THEN f.maxRecursionDepth
                                                     ELSE maxRecursionDepth
                   /\ JobDone(i, IF writes
                                 THEN <<"Configuration imported from ", "in.json">>
                                 ELSE <<"Error importing configuration: ", "write failed">>)
        /\ UNCHANGED files

\* the themes of the default configuration, and a name that is no theme
Themes == {"default", "dark", "light"}

ThemeNames == {"dark", "neon"}

\* ConfigCommandHandler.setTheme
setTheme ==
    \E themeName \in ThemeNames :
        Command(<<"/config theme set ", themeName>>,
                <<"Setting theme to ", themeName, "...">>,
                Job("theme", themeName, Len(messages)))

\* setActiveTheme returns to the asyncHandler of /config theme set:
\* updateConfig saves a merged copy
SetThemeDone ==
    \E i \in DOMAIN jobs : \E writes \in BOOLEAN :
        /\ jobs[i].kind = "theme"
        /\ jobs[i].state = "queued"
        /\ IF jobs[i].arg \notin Themes
           THEN /\ writes
                /\ JobDone(i, <<"Error setting theme: ", "Theme does not exist">>)
                /\ UNCHANGED cfgVars
           ELSE /\ saveConfig([config EXCEPT !.colorScheme = jobs[i].arg],
                              maxRecursionDepth, writes)
                /\ JobDone(i, IF writes
                              THEN <<"Theme changed to ", jobs[i].arg>>
                              ELSE <<"Error setting theme: ", "write failed">>)
        /\ UNCHANGED <<files, maxRecursionDepth>>

\* ConfigCommandHandler.handleSetConfig for ui.colorScheme
handleSetColorScheme ==
    \E themeName \in ThemeNames :
        Command(<<"/config set ui.colorScheme ", themeName>>,
                <<"Updating configuration ", "ui.colorScheme", "...">>,
                Job("scheme", themeName, Len(messages)))

\* setConfigValue for ui.colorScheme and saveConfig return to the
\* asyncHandler of /config set: the key exists and holds a string, so the
\* value goes into the object getConfig returned as it is
SetColorSchemeDone ==
    \E i \in DOMAIN jobs : \E writes \in BOOLEAN :
        /\ jobs[i].kind = "scheme"
        /\ jobs[i].state = "queued"
        /\ LET updated == [config EXCEPT !.colorScheme = jobs[i].arg]
           IN IF writes
              THEN saveConfig(updated, maxRecursionDepth, TRUE)
              ELSE /\ config' = updated
                   /\ configFile' = [configFile EXCEPT !.failed = @ + 1]
                   /\ UNCHANGED <<notifyCount, currentModel, watchers, calls, fetch, configUI>>
        /\ JobDone(i, IF writes
                      THEN <<"Configuration updated: ", "ui.colorScheme", " = ",
                             jobs[i].arg>>
                      ELSE <<"Error updating configuration: ", "write failed">>)
        /\ UNCHANGED <<files, maxRecursionDepth>>

\* getCurrentTheme: the theme ui.colorScheme names, or the default theme
getCurrentTheme == IF config.colorScheme \in Themes THEN config.colorScheme ELSE "default"

\* the models of the /model command: one of DEFAULT_MODELS and an unknown one
ModelNames == {"gpt-4o", "gpt-9"}

availableModels == {"gpt-4o-mini", "gpt-4o"}

\* handleSubmit for /model <name>: SlashCommandHandler.handleModelCommand
\* has no asynchronous part
handleModelCommand ==
    \E newModel \in ModelNames :
        /\ Accepts(<<"/model ", newModel>>)
        /\ Len(commandHistory) < MaxCommands
        /\ messages' = messages \o
               <<Message(Len(messages) + 1, "user", <<"/model ", newModel>>),
                 Message(Len(messages) + 2, "assistant",
                         IF newModel \in availableModels
                         THEN <<"Switched to model: ", newModel>>
                         ELSE <<"Unknown model: ", newModel>>)>>
        /\ currentModel' = IF newModel \in availableModels THEN newModel
                                                            ELSE currentModel
        /\ Submitted(<<"/model ", newModel>>)
        /\ UNCHANGED <<files, toolVars, isLoading, pc, turn, depth, message, idx,
                       conversationMessages, conversationFinished, finishedSummary,
                       lastRequest, lastReply, trace, turns, shellVars, config,
                       configFile, notifyCount, watchers, calls, fetch, configUI>>

----
(* ModelManager.fetchAvailableModels *)

\* FUNCTION_CALLING_MODELS
FUNCTION_CALLING_MODELS ==
    <<"gpt-5", "gpt-5-mini", "gpt-5-nano", "gpt-4o", "gpt-4o-2024-08-06",
      "gpt-4o-2024-05-13", "gpt-4o-mini", "gpt-4o-mini-2024-07-18", "gpt-4-turbo",
      "gpt-4-turbo-2024-04-09", "gpt-4-turbo-preview", "gpt-4-0125-preview",
      "gpt-4-1106-preview", "gpt-4", "gpt-4-0613", "gpt-3.5-turbo",
      "gpt-3.5-turbo-0125", "gpt-3.5-turbo-1106", "gpt-3.5-turbo-0613">>

Includes(list, x) == \E k \in DOMAIN list : list[k] = x

\* the ids the model list of the service can hold, in the order of the
\* default comparison of Array.prototype.sort
ApiIds == <<"dall-e-3", "gpt-3.5-turbo", "gpt-4", "gpt-4o", "whisper-1">>

Rank(id) == CHOOSE k \in DOMAIN ApiIds : ApiIds[k] = id

\* Array.prototype.sort without a comparison function
RECURSIVE Sort(_)
Sort(list) ==
    IF list = << >> THEN << >>
    ELSE LET least == CHOOSE k \in DOMAIN list :
                          \A j \in DOMAIN list : Rank(list[k]) <= Rank(list[j])
         IN <<list[least]>>
            \o Sort(SubSeq(list, 1, least - 1) \o SubSeq(list, least + 1, Len(list)))

\* what this.openai.models.list() does: it throws, or returns this data
ModelLists ==
    {[threw |-> TRUE, data |-> << >>]}
    \cup {[threw |-> FALSE, data |-> d] :
             d \in SeqsUpTo({ApiIds[k] : k \in DOMAIN ApiIds}, MaxModels)}

\* the number of models of the fallback list
FallbackCount == 7

IsFunctionCalling(id) == Includes(FUNCTION_CALLING_MODELS, id)

\* fetchAvailableModels without the filter on FUNCTION_CALLING_MODELS
fetchAvailableModels_unfiltered(list) ==
    IF list.threw \/ list.data = << >>
    THEN [failed |-> FALSE, value |-> SubSeq(FUNCTION_CALLING_MODELS, 1, FallbackCount)]
    ELSE [failed |-> FALSE, value |-> Sort(list.data)]

\* fetchAvailableModels when models.list() does as list says
fetchAvailableModels(list) ==
    IF list.threw
    THEN [failed |-> FALSE, value |-> SubSeq(FUNCTION_CALLING_MODELS, 1, FallbackCount)]
    ELSE LET chatModels == Sort(SelectSeq(list.data, IsFunctionCalling))
         IN IF Len(chatModels) > 0
            THEN [failed |-> FALSE, value |-> chatModels]
            ELSE [failed |-> FALSE,
                  value |-> SubSeq(FUNCTION_CALLING_MODELS, 1, FallbackCount)]

NoFetch == [asked |-> FALSE, list |-> [threw |-> FALSE, data |-> << >>],
            failed |-> FALSE, value |-> << >>]

\* a call of fetchAvailableModels
FetchModels ==
    \E list \in ModelLists :
        LET out == fetchAvailableModels(list)
        IN /\ fetch' = [asked |-> TRUE, list |-> list, failed |-> out.failed,
                        value |-> out.value]
           /\ UNCHANGED <<files, toolVars, driverVars, shellVars, uiVars, config,
                          configFile, currentModel, notifyCount, watchers, calls,
                          configUI>>

----
(* ConfigUI: the menus, the setup wizard and its prompts *)

NoInput == [prompt |-> "", value |-> << >>]

NoKey == [key |-> "", mode |-> ""]

\* the component after mounting: the main menu; cancels counts the calls of
\* an onCancel, left says that onExit was called, pressed is the newest key
\* and the mode it was pressed in
MountedUI ==
    [mode |-> "menu", selectedIndex |-> 0, setupStep |-> 0, inputState |-> NoInput,
     cancels |-> 0, left |-> FALSE, pressed |-> NoKey]

mainMenuItems == <<"setup", "providers", "themes", "general", "view", "export", "exit">>

providerMenuItems == <<"openai", "anthropic", "custom", "back">>

themeMenuItems == <<"default", "dark", "light", "create", "back">>

getCurrentMenuItems ==
    CASE configUI.mode = "providers" -> providerMenuItems
      [] configUI.mode = "themes" -> themeMenuItems
      [] OTHER -> mainMenuItems

selectedInRange == configUI.selectedIndex < Len(getCurrentMenuItems)

Pressed(key) == [key |-> key, mode |-> configUI.mode]

\* a key reaches the component: it is mounted, and every other variable stays
UIKey(key, after) ==
    /\ ~configUI.left
    /\ configUI' = [after EXCEPT !.pressed = Pressed(key)]
    /\ UNCHANGED <<files, toolVars, driverVars, shellVars, uiVars, config,
                   configFile, currentModel, notifyCount, watchers, calls, fetch>>

\* useInput for Escape: nothing in input mode, onExit in the main menu, back
\* to the main menu otherwise
UIEscaped ==
    IF configUI.mode = "input"
    THEN configUI
    ELSE IF configUI.mode = "menu"
    THEN [configUI EXCEPT !.left = TRUE]
    ELSE [configUI EXCEPT !.mode = "menu", !.selectedIndex = 0]

UIEscape ==
    /\ ~configUI.left
    /\ UIKey("escape", UIEscaped)

\* useInput for the up arrow
UIArrowUp ==
    /\ configUI.mode # "input"
    /\ UIKey("up", [configUI EXCEPT !.selectedIndex =
                        IF @ > 0 THEN @ - 1 ELSE Len(getCurrentMenuItems) - 1])

\* useInput for the down arrow
UIArrowDown ==
    /\ configUI.mode # "input"
    /\ UIKey("down", [configUI EXCEPT !.selectedIndex =
                          IF @ < Len(getCurrentMenuItems) - 1 THEN @ + 1 ELSE 0])

\* promptForInput and promptYesNo: setInputState, setMode('input')
Prompt(prompt) ==
    [configUI EXCEPT !.inputState = [prompt |-> prompt, value |-> << >>],
                     !.mode = "input"]

\* handleMenuSelect for the entries that change the mode or leave
handleMenuSelect ==
    LET selected == getCurrentMenuItems[configUI.selectedIndex + 1]
    IN CASE selected = "setup" -> [configUI EXCEPT !.mode = "setup", !.setupStep = 0]
         [] selected \in {"providers", "themes", "general"} ->
                [configUI EXCEPT !.mode = selected, !.selectedIndex = 0]
         [] selected = "exit" -> [configUI EXCEPT !.left = TRUE]
         [] selected = "back" -> [configUI EXCEPT !.mode = "menu", !.selectedIndex = 0]
         [] OTHER -> configUI

YesNoPrompt == "Would you like to configure Anthropic Claude? (y/n)"

\* handleSetupWizard up to its second prompt
handleSetupWizard ==
    CASE configUI.setupStep = 0 -> [configUI EXCEPT !.setupStep = 1]
      [] configUI.setupStep = 1 -> Prompt("Enter your OpenAI API Key")
      [] configUI.setupStep = 2 -> Prompt(YesNoPrompt)
      [] OTHER -> configUI

\* useInput for Enter outside input mode
UIReturn ==
    /\ configUI.mode # "input"
    /\ selectedInRange
    /\ UIKey("return", IF configUI.mode = "setup" THEN handleSetupWizard
                                                   ELSE handleMenuSelect)

\* TextInput onChange
UIType ==
    \E ch \in {"k", "y"} :
        /\ configUI.mode = "input"
        /\ configUI.inputState # NoInput
        /\ configUI.inputState.value = << >>
        /\ UIKey(ch, [configUI EXCEPT !.inputState.value = <<ch>>])

\* TextInput onSubmit: the onSubmit of the prompt; the mode stays as it is
UISubmit ==
    /\ configUI.mode = "input"
    /\ configUI.inputState # NoInput
    /\ UIKey("return",
             IF configUI.inputState.prompt = YesNoPrompt /\ configUI.inputState.value = <<"y">>
             THEN Prompt("Enter your Anthropic API Key")
             ELSE [configUI EXCEPT !.inputState = NoInput, !.setupStep = @ + 1])

----
(* The keys of the input box: useInput and the timer of the exit presses *)

\* the last branch of useInput: another key clears the count of exit presses
OtherKeyPressed ==
    /\ exitPressCount' = 0
    /\ keys' = << >>
    /\ UNCHANGED <<input, commandHistory, historyIndex, lastSubmit, exited>>

\* handleSubmit that returns at once: the value is blank or a turn is in
\* flight; Enter went through useInput first
IgnoredSubmit ==
    \E value \in UserInputs \cup BlankInputs \cup {<<"/logs">>} :
        /\ ~exited
        /\ ~Accepts(value)
        /\ lastSubmit.n < MaxSubmits
        /\ lastSubmit' = Submit(value)
        /\ exitPressCount' = 0
        /\ keys' = << >>
        /\ UNCHANGED <<files, toolVars, driverVars, shellVars, cfgVars, input,
                       commandHistory, historyIndex, exited>>

\* the up arrow that starts at the oldest line
ArrowUp_oldest ==
    /\ ~exited
    /\ ~isLoading
    /\ commandHistory # << >>
    /\ historyIndex' = Max(0, historyIndex - 1)
    /\ input' = commandHistory[historyIndex' + 1]
    /\ UNCHANGED <<commandHistory, lastSubmit, exitPressCount, exited, keys>>
    /\ UNCHANGED <<files, toolVars, driverVars, shellVars, cfgVars>>

\* the up arrow: the line before in the history; while a turn is in flight
\* the key falls through to the last branch
ArrowUp ==
    /\ ~exited
    /\ IF isLoading
       THEN exitPressCount > 0 /\ OtherKeyPressed
       ELSE /\ commandHistory # << >>
            /\ LET newIndex == IF historyIndex = -1
                                THEN Len(commandHistory) - 1
                                ELSE Max(0, historyIndex - 1)
               IN /\ historyIndex' = newIndex
                  /\ input' = commandHistory[newIndex + 1]
            /\ UNCHANGED <<commandHistory, lastSubmit, exitPressCount, exited, keys>>
    /\ UNCHANGED <<files, toolVars, driverVars, shellVars, cfgVars>>

\* the down arrow: the line after, or the empty line past the newest
ArrowDown ==
    /\ ~exited
    /\ IF isLoading
       THEN exitPressCount > 0 /\ OtherKeyPressed
       ELSE /\ historyIndex >= 0
            /\ LET newIndex == historyIndex + 1
               IN IF newIndex >= Len(commandHistory)
                  THEN historyIndex' = -1 /\ input' = << >>
                  ELSE historyIndex' = newIndex /\ input' = commandHistory[newIndex + 1]
            /\ UNCHANGED <<commandHistory, lastSubmit, exitPressCount, exited, keys>>
    /\ UNCHANGED <<files, toolVars, driverVars, shellVars, cfgVars>>

\* the number of earlier presses up to which Ctrl+C only shows the hint
CtrlCHints == 1

\* Ctrl+C
PressCtrlC ==
    /\ ~exited
    /\ Len(keys) < MaxKeys
    /\ input' = << >>
    /\ exitPressCount' = exitPressCount + 1
    /\ exited' = (exitPressCount > CtrlCHints)
    /\ keys' = Append(keys, "ctrl+c")
    /\ UNCHANGED <<files, toolVars, driverVars, shellVars, cfgVars,
                   commandHistory, historyIndex, lastSubmit>>

\* Escape
PressEscape ==
    /\ ~exited
    /\ Len(keys) < MaxKeys
    /\ exitPressCount' = exitPressCount + 1
    /\ exited' = (exitPressCount # 0)
    /\ keys' = Append(keys, "escape")
    /\ UNCHANGED <<files, toolVars, driverVars, shellVars, cfgVars, input,
                   commandHistory, historyIndex, lastSubmit>>

\* any other key
OtherKey ==
    /\ ~exited
    /\ exitPressCount > 0
    /\ OtherKeyPressed
    /\ UNCHANGED <<files, toolVars, driverVars, shellVars, cfgVars>>

\* the timer of the effect on exitPressCount: three seconds without a press
ExitTimeout ==
    /\ ~exited
    /\ exitPressCount > 0
    /\ exitPressCount' = 0
    /\ keys' = << >>
    /\ UNCHANGED <<files, toolVars, driverVars, shellVars, cfgVars, input,
                   commandHistory, historyIndex, lastSubmit, exited>>

----
(* Specifications *)

InitialFiles ==
    {[p \in Paths |-> NoFile], [p \in Paths |-> File(<<"a">>)],
     [p \in Paths |-> File(<<"CONVERSATION_COMPLETE:", "done">>)]}

Started ==
    /\ toolCall = NoCall
    /\ toolOutcome = NoOutcome
    /\ messages = <<Message(1, "assistant", Greeting)>>
    /\ isLoading = FALSE
    /\ pc = "idle"
    /\ turn = NoTurn
    /\ depth = 0
    /\ message = Undefined
    /\ idx = 0
    /\ conversationMessages = << >>
    /\ conversationFinished = FALSE
    /\ finishedSummary = << >>
    /\ lastRequest = << >>
    /\ lastReply = NoReply
    /\ trace = NoTrace
    /\ turns = 0
    /\ jobs = << >>
    /\ input = << >>
    /\ commandHistory = << >>
    /\ historyIndex = -1
    /\ lastSubmit = NoSubmit
    /\ exitPressCount = 0
    /\ exited = FALSE
    /\ keys = << >>
    /\ notifyCount = 0
    /\ watchers = {AppWatcher}
    /\ calls = [w \in Callbacks |-> << >>]
    /\ fetch = NoFetch
    /\ configUI = MountedUI

\* initializeApp: loadConfig has read ../config.json, or has written the
\* defaults to it, and the current model is the default model
Loaded(c, d) ==
    /\ config = c
    /\ maxRecursionDepth = d
    /\ configFile = ConfigFile(c, d)
    /\ currentModel = c.defaultModel

Idle == Started /\ Loaded(DefaultConfig, DefaultMaxRecursionDepth)

\* the application after construction; notes.txt exists
Init ==
    /\ files = [p \in Paths |-> File(<<"a">>)]
    /\ Idle

\* the executor before its first call; notes.txt exists or not
InitTool ==
    /\ files \in InitialFiles
    /\ Idle

\* the turns of the chat
Next ==
    \/ handleSubmit(FALSE)
    \/ InitialReply(FALSE)
    \/ FollowUpReply(FALSE)
    \/ CompletionFails
    \/ ToolLoopStep(FALSE)

Spec == Init /\ [][Next]_vars

\* the turns of the chat when every completion request returns or fails and
\* every tool execution returns
SpecLive ==
    /\ Init
    /\ [][Next]_vars
    /\ WF_vars(InitialReply(FALSE) \/ FollowUpReply(FALSE) \/ CompletionFails)
    /\ WF_vars(ToolLoopStep(FALSE))

\* the same turns, with lastRequest keeping the messages of each completion
\* request
NextWire ==
    \/ handleSubmit(TRUE)
    \/ InitialReply(TRUE)
    \/ FollowUpReply(TRUE)
    \/ CompletionFails
    \/ ToolLoopStep(TRUE)

SpecWire == Init /\ [][NextWire]_vars

\* the turns of the chat and the commands
NextShell ==
    \/ handleSubmit(FALSE)
    \/ InitialReply(FALSE)
    \/ FollowUpReply(FALSE)
    \/ CompletionFails
    \/ ToolLoopStep(FALSE)
    \/ handleBashCommand
    \/ BashStart
    \/ BashDone
    \/ handleLogsCommand
    \/ LogsDone
    \/ handleSetConfig
    \/ SetConfigDone

SpecShell == Init /\ [][NextShell]_vars

\* the application after construction, with the configuration left behind by
\* an earlier run
InitConfig ==
    /\ files = [p \in Paths |-> File(<<"a">>)]
    /\ Started
    /\ \E c \in {DefaultConfig, [DefaultConfig EXCEPT !.colorScheme = "light"]} :
       \E d \in {DefaultMaxRecursionDepth} \cup ConfigDepths :
           Loaded(c, d)

\* the commands on the configuration and the model
NextConfig ==
    \/ handleModelCommand
    \/ handleSetConfig
    \/ SetConfigDone
    \/ handleResetConfig
    \/ ResetConfigDone
    \/ handleImportConfig
    \/ ImportConfigDone
    \/ setTheme
    \/ SetThemeDone
    \/ handleSetColorScheme
    \/ SetColorSchemeDone

SpecConfig == InitConfig /\ [][NextConfig]_vars

\* the keys of the configuration UI
NextUI ==
    \/ UIEscape
    \/ UIArrowUp
    \/ UIArrowDown
    \/ UIReturn
    \/ UIType
    \/ UISubmit

SpecUI == Init /\ [][NextUI]_vars

\* the calls of fetchAvailableModels
NextModels == FetchModels

SpecModels == Init /\ [][NextModels]_vars

\* the change watchers of the configuration manager
NextWatch ==
    \/ onConfigChange
    \/ Unsubscribe
    \/ SaveConfig

SpecWatch == Init /\ [][NextWatch]_vars

\* the turns of the chat, the exit keys and the arrow keys
NextKeys ==
    \/ ~exited /\ Next
    \/ PressCtrlC
    \/ PressEscape
    \/ OtherKey
    \/ ExitTimeout
    \/ ArrowUp
    \/ ArrowDown

SpecKeys == Init /\ [][NextKeys]_vars

\* the turns of the chat, /logs, the submissions that are ignored and the
\* arrow keys
NextInput ==
    \/ Next
    \/ handleLogsCommand
    \/ LogsDone
    \/ IgnoredSubmit
    \/ ArrowUp
    \/ ArrowDown

SpecInput == Init /\ [][NextInput]_vars

\* the turns whose first reply calls the finished tool more than once
NextFinish ==
    \/ handleSubmit(FALSE)
    \/ FinishedReply
    \/ CompletionFails
    \/ ToolLoopStep(FALSE)

SpecFinish == Init /\ [][NextFinish]_vars

\* write_file before its first call: notes.txt is missing or holds a few lines
InitDiff ==
    /\ files \in {[p \in Paths |-> NoFile]}
                  \cup {[p \in Paths |-> File(c)] : c \in DiffContents}
    /\ Idle

NextDiff ==
    \/ WriteShort
    \/ WriteLong

SpecDiff == InitDiff /\ [][NextDiff]_vars

\* the executor on its own
NextTool ==
    \/ ExecuteTool
    \/ ExecuteToolRoot

SpecTool == InitTool /\ [][NextTool]_vars

----
(* Properties *)

IsPrefix(p, q) == Len(p) <= Len(q) /\ SubSeq(q, 1, Len(p)) = p

\* what the turn has appended to the visible list
TurnAppended == SubSeq(messages, Len(turn.messages) + 1, Len(messages))

\* the turn is over and has appended the user message and one assistant message
TurnEndedWith(content) ==
    /\ TurnAppended = <<Message(Len(turn.messages) + 1, "user", turn.userInput),
                        Message(Len(turn.messages) + 2, "assistant", content)>>
    /\ pc = "idle"
    /\ ~isLoading

\* the newest reply lists tool calls
ReplyHasCalls == lastReply.message.t = "message" /\ lastReply.message.tool_calls.t = "array"

ReplyCalls == lastReply.message.tool_calls.v

IsToolMessage(w) == w.role = "tool"

\* the tool messages of the request under construction
ToolResults == SelectSeq(conversationMessages, IsToolMessage)

\* the handling of the newest reply's batch is over
BatchOver == pc = "awaitFollowUp" \/ trace.ended \in {"finished", "batchError"}

\* C1: in every completion request, each tool call of an assistant message is
\* followed by exactly one tool message with that call's id, also when an
\* entry of the batch has no function field
C1_EveryCallAnswered ==
    \A i \in DOMAIN lastRequest :
        (lastRequest[i].role = "assistant" /\ lastRequest[i].tool_calls.t = "array") =>
            \A k \in DOMAIN lastRequest[i].tool_calls.v :
                Cardinality({j \in (i + 1)..Len(lastRequest) :
                                /\ lastRequest[j].role = "tool"
                                /\ lastRequest[j].tool_call_id =
                                       Num(lastRequest[i].tool_calls.v[k].id)}) = 1

\* C2: within a turn each request has the previous request as a prefix and
\* adds to it one assistant message and tool messages only
C2_RequestExtendsPrevious ==
    [][(turns' = turns /\ lastRequest' # lastRequest) =>
          /\ IsPrefix(lastRequest, lastRequest')
          /\ Len(lastRequest') > Len(lastRequest)
          /\ lastRequest'[Len(lastRequest) + 1].role = "assistant"
          /\ \A j \in (Len(lastRequest) + 2)..Len(lastRequest') :
                 lastRequest'[j].role = "tool"]_vars

\* C3: the depth never exceeds the ceiling; a reply with tool calls that
\* arrives at the ceiling runs no tool, appends the advisory message alone and
\* is followed by no request
C3_DepthCeiling ==
    /\ depth <= MAX_RECURSION_DEPTH
    /\ lastReply.depth <= MAX_RECURSION_DEPTH
    /\ (ReplyHasCalls /\ lastReply.depth = MAX_RECURSION_DEPTH) =>
          /\ trace.ended = "ceiling"
          /\ trace.executed = << >>
          /\ TurnEndedWith(AdvisoryText)
          /\ trace.requests = lastReply.requests
    /\ trace.ended = "ceiling" => (ReplyHasCalls /\ lastReply.depth = MAX_RECURSION_DEPTH)

C3_Witness ==
    /\ trace.ended = "ceiling"
    /\ lastReply.depth = MAX_RECURSION_DEPTH
    /\ trace.requests = MAX_RECURSION_DEPTH + 1

\* C4: when the handling of a batch is over, every call of the batch has been
\* executed, in the order received, and the tool messages are one per call in
\* that order
C4_WholeBatchRuns ==
    BatchOver =>
        /\ trace.executed = [i \in 1..Len(ReplyCalls) |-> ReplyCalls[i].id]
        /\ Len(ToolResults) = Len(ReplyCalls)
        /\ \A i \in 1..Len(ReplyCalls) : ToolResults[i].tool_call_id = Num(ReplyCalls[i].id)

\* the summary of the last finished call of the newest reply
FinishedCalls ==
    {i \in DOMAIN ReplyCalls :
        /\ ReplyCalls[i].function.t = "function"
        /\ ReplyCalls[i].function.name = "finished"}

LastSummary ==
    LET i == CHOOSE x \in FinishedCalls : \A y \in FinishedCalls : y <= x
    IN ToText(Prop(JSON_parse(ReplyCalls[i].function.arguments).value, "summary"))

\* a tool of the batch has returned the termination sentinel
SentinelProduced ==
    \E i \in DOMAIN ToolResults : StartsWith(ToolResults[i].content.v, Sentinel)

\* C5: a batch with a sentinel result ends the turn without another request,
\* and the one assistant message is the reply's text, or "Task completed:
\* <summary>" when the reply has none
C5_SentinelEndsTurn ==
    (SentinelProduced /\ pc # "toolLoop") =>
        /\ trace.ended = "finished"
        /\ trace.requests = lastReply.requests
        /\ TurnEndedWith(IF lastReply.message.content.t = "string"
                            /\ lastReply.message.content.v # << >>
                         THEN lastReply.message.content.v
                         ELSE <<"Task completed: ">> \o LastSummary)

\* a reply has arrived and lists no tool call
ReplyWithoutCalls ==
    /\ lastReply.requests > 0
    /\ lastReply.message.t = "message" =>
           lastReply.message.tool_calls.t \in {"undefined", "null"}

ReplyText ==
    IF lastReply.message.t = "message" /\ lastReply.message.content.t = "string"
       /\ lastReply.message.content.v # << >>
    THEN lastReply.message.content.v
    ELSE IF lastReply.depth = 0 THEN <<"Sorry, I couldn't process that request.">>
    ELSE <<"I completed the task but couldn't provide a final response.">>

WroteFile == toolCall.name = "write_file" /\ toolCall.impl # "none"

\* C7: write_file changes the file only after the operator has answered the
\* prompt with y or yes in any case; any other answer leaves the file as it
\* was and returns the cancellation string; an accepted write leaves the file
\* equal to the new content and returns the success string
C7_WriteNeedsApproval ==
    WroteFile =>
        /\ (toolOutcome.wrote \/ files # toolCall.before) =>
               (toolOutcome.prompted /\ Approved(toolCall.io.answer))
        /\ (toolOutcome.prompted /\ ~Approved(toolCall.io.answer)) =>
               /\ files = toolCall.before
               /\ toolOutcome.result = <<"X File write cancelled by user">>
               /\ ~toolOutcome.raised
        /\ toolOutcome.wrote =>
               /\ files[toolCall.arguments.path.v[1]] = File(toolCall.arguments.content.v)
               /\ toolOutcome.result \in
                      {<<"OK Successfully wrote to ">> \o toolCall.arguments.path.v,
                       <<"Successfully wrote to ">> \o toolCall.arguments.path.v}

\* the handler of the last call threw
HandlerThrew ==
    /\ toolCall.impl = "src"
    /\ Handler(toolCall.name, toolCall.arguments, toolCall.io, toolCall.before).raised

\* C8: executeTool never raises, whatever the name, the arguments and the
\* outcome of the file, directory or subprocess operation; its result is a
\* string, and "Error executing <name>: <message>" when the handler failed
C8_ExecuteToolNeverRaises ==
    toolCall.impl # "none" =>
        /\ ~toolOutcome.raised
        /\ \A i \in DOMAIN toolOutcome.result : toolOutcome.result[i] \in STRING
        /\ HandlerThrew =>
               /\ StartsWith(toolOutcome.result, <<"Error executing ", toolCall.name, ": ">>)
               /\ Len(toolOutcome.result) > 3
               /\ files = toolCall.before

C8_Witness ==
    /\ toolCall.impl = "src"
    /\ toolCall.name = "write_file"
    /\ toolCall.arguments = Null
    /\ toolOutcome.result = <<"Error executing ", "write_file", ": ">> \o NullRead

\* the newest reply has a call whose argument payload is not JSON
ReplyHasBadJson ==
    /\ ReplyHasCalls
    /\ \E i \in DOMAIN ReplyCalls :
           /\ ReplyCalls[i].function.t = "function"
           /\ ~JSON_parse(ReplyCalls[i].function.arguments).ok

\* C9: a payload that is not JSON is handled like a failed tool: its call gets
\* a tool message, the rest of the batch runs, and the turn goes on to the
\* next request or to its finished message, never to a turn-level error
C9_BadJsonIsToolFailure ==
    (ReplyHasBadJson /\ lastReply.depth < MAX_RECURSION_DEPTH /\ pc # "toolLoop"
        /\ trace.ended # "completionError") =>
        /\ trace.ended \in {"no", "finished"}
        /\ \A i \in DOMAIN ReplyCalls :
               ReplyCalls[i].function.t = "function" =>
                   \E j \in DOMAIN ToolResults :
                       ToolResults[j].tool_call_id = Num(ReplyCalls[i].id)

\* C10: a failed completion request, initial or follow-up, ends the turn with
\* the one assistant message "Error: <message>"; the failed request is the
\* last one of the turn and no tool runs after it
C10_CompletionFailureEndsTurn ==
    trace.ended = "completionError" =>
        /\ \E e \in CompletionErrors : TurnEndedWith(<<"Error: ">> \o e.message)
        /\ trace.requests = lastReply.requests + 1
        /\ conversationMessages = << >>

C10_Witness ==
    /\ trace.ended = "completionError"
    /\ lastReply.requests = 2
    /\ trace.executed # << >>

\* the names of the tools offered to the completion service
RegisteredTools == {"read_file", "write_file", "list_files", "run_command", "finished"}

IsCall(tc) == tc.function.t = "function"

\* the calls of the newest reply whose name is no registered tool
UnknownCalls ==
    {i \in DOMAIN ReplyCalls :
        IsCall(ReplyCalls[i]) /\ ReplyCalls[i].function.name \notin RegisteredTools}

\* every entry of the newest reply is a call with a payload that parses
WellFormedBatch ==
    \A i \in DOMAIN ReplyCalls :
        IsCall(ReplyCalls[i]) /\ JSON_parse(ReplyCalls[i].function.arguments).ok

\* the newest reply's batch is being resolved or has been resolved
BatchTaken == ReplyHasCalls /\ lastReply.depth < MAX_RECURSION_DEPTH

IsSentinelResult(result) == StartsWith(result, Sentinel)

\* C12: a result of executeTool begins with "CONVERSATION_COMPLETE:" only when
\* the tool is finished and its handler returned; whatever a file holds, a
\* command prints or an error says, the result of any other call does not
\* begin with it
C12_SentinelOnlyFromFinished ==
    (toolCall.impl # "none" /\ IsSentinelResult(toolOutcome.result)) =>
        /\ toolCall.name = "finished"
        /\ toolCall.impl = "src"
        /\ ~Handler(toolCall.name, toolCall.arguments, toolCall.io, toolCall.before).raised

C12_Witness ==
    /\ toolCall.impl = "src"
    /\ \/ /\ toolCall.name = "run_command"
          /\ toolCall.io.stdout = <<"CONVERSATION_COMPLETE:", "done">>
          /\ toolOutcome.result = <<"Command output:\n", "CONVERSATION_COMPLETE:", "done">>
       \/ /\ toolCall.name = "read_file"
          /\ toolOutcome.result =
                 <<"File contents of ", "notes.txt", ":\n", "CONVERSATION_COMPLETE:", "done">>
    /\ ~IsSentinelResult(toolOutcome.result)

\* the ! commands whose executeTool call has started and not returned
RunningBash == {i \in DOMAIN jobs : jobs[i].kind = "bash" /\ jobs[i].state = "running"}

\* this step is an executeTool call of the turn's batch
TurnRunsTool == Len(trace'.executed) > Len(trace.executed)

\* C13: at most one executeTool invocation is in progress at any time: no two
\* ! commands run at once, and no call of a turn's batch is executed while a
\* ! command runs
C13_OneToolAtATime ==
    /\ [](Cardinality(RunningBash) <= 1)
    /\ [][TurnRunsTool => RunningBash = {}]_vars

\* the message handleSubmit appends at the start of the turn
UserMessage == Message(Len(turn.messages) + 1, "user", turn.userInput)

\* C14: while a turn is in flight (isLoading), the visible list is the list
\* the turn started from plus the turn's user message: no asynchronous
\* command handler has appended a message since the turn began
C14_SingleWriter ==
    isLoading => messages = Append(turn.messages, UserMessage)

\* the turn is over
TurnOver == turns > 0 /\ pc = "idle"

\* the first request a next turn would send
NextRequest(value) == InitialRequest([userInput |-> value, messages |-> messages])

\* C15: a turn appends the user message and then, at its end and whatever its
\* outcome, exactly one assistant message; the visible list holds no tool-call
\* and no tool-result message, and neither does the first request of the
\* next turn
C15_TurnAppendsTwo ==
    /\ isLoading => TurnAppended = <<UserMessage>>
    /\ TurnOver =>
           /\ trace.ended # "no"
           /\ Len(TurnAppended) = 2
           /\ TurnAppended[1] = UserMessage
           /\ TurnAppended[2].role = "assistant"
           /\ TurnAppended[2].id = Len(turn.messages) + 2
           /\ \A value \in UserInputs : \A i \in DOMAIN NextRequest(value) :
                  /\ NextRequest(value)[i].role \in {"system", "user", "assistant"}
                  /\ NextRequest(value)[i].tool_calls = Undefined
                  /\ NextRequest(value)[i].tool_call_id = Undefined
    /\ \A i \in DOMAIN messages : messages[i].role \in {"user", "assistant"}

C15_Witness ==
    /\ TurnOver
    /\ trace.ended = "finished"
    /\ lastReply.depth = 1
    /\ Len(trace.executed) = 2
    /\ Len(messages) = 3

\* the turn began after /config set general.maxRecursionDepth k had reported
\* its success, and k is still the configured value
ConfiguredBeforeTurn ==
    \E i \in DOMAIN turn.messages :
        turn.messages[i].content = ConfigUpdated(maxRecursionDepth)

\* C16: once general.maxRecursionDepth has been set to k, a turn resolves at
\* most k rounds of tool calls: the round at depth d runs only when d < k
C16_ConfiguredCeiling ==
    (pc = "toolLoop" /\ ConfiguredBeforeTurn) => depth < maxRecursionDepth

\* text s holds the tokens of sub next to each other
Contains(s, sub) ==
    \E k \in 1..(Len(s) - Len(sub) + 1) : SubSeq(s, k, k + Len(sub) - 1) = sub

\* the last call was a write_file of src/tools.ts with a string content and a
\* path of the file system
WriteOfText ==
    /\ toolCall.impl = "src"
    /\ toolCall.name = "write_file"
    /\ toolCall.arguments.t = "object"
    /\ IsPath(toolCall.arguments.path)
    /\ toolCall.arguments.content.t = "string"

OldFile == toolCall.before[toolCall.arguments.path.v[1]]

\* the old content was read
OldRead == OldFile.exists /\ ~toolCall.io.readFails

\* C17: write_file on a readable file whose content equals the new content
\* shows a diff with "No changes detected." and no removal or addition line;
\* the operator is asked, and an approved write is performed and leaves the
\* file as it was
C17_IdenticalContent ==
    (WriteOfText /\ OldRead /\ OldFile.content = toolCall.arguments.content.v) =>
        /\ Contains(toolOutcome.shown, <<"No changes detected.", NL>>)
        /\ \A k \in DOMAIN toolOutcome.shown : toolOutcome.shown[k] \notin {"- ", "+ "}
        /\ toolOutcome.prompted
        /\ files = toolCall.before
        /\ (Approved(toolCall.io.answer) /\ ~toolCall.io.writeFails) =>
               /\ toolOutcome.wrote
               /\ toolOutcome.result = <<"OK Successfully wrote to ">> \o toolCall.arguments.path.v
        /\ ~Approved(toolCall.io.answer) => ~toolOutcome.wrote

C17_Witness ==
    /\ WriteOfText /\ OldRead
    /\ OldFile.content = <<"a", NL, "b">>
    /\ toolCall.arguments.content.v = <<"a", NL, "b">>
    /\ toolCall.io.answer = Str(<<"y">>)
    /\ toolOutcome.wrote
    /\ Contains(toolOutcome.shown, <<"No changes detected.", NL>>)

OldLines == Split(OldFile.content)

NewLines == Split(toolCall.arguments.content.v)

\* the lines at index i - 1 differ; a line missing on one side differs from
\* any line of the other side
LinesDiffer(i) ==
    \/ i > Len(OldLines)
    \/ i > Len(NewLines)
    \/ OldLines[i] # NewLines[i]

\* C18: for every line index below the larger line count, the diff holds the
\* removal line "- <n>: <old line>" and the addition line "+ <n>: <new line>"
\* (for the side that has a line at that index) when the lines differ, a
\* line missing on one side counting as a difference, and holds no line for
\* that index when they are equal
C18_DiffRecordsEachDifference ==
    (WriteOfText /\ OldRead) =>
        \A i \in 1..Max(Len(OldLines), Len(NewLines)) :
            IF LinesDiffer(i)
            THEN /\ i <= Len(OldLines) =>
                        Contains(toolOutcome.shown,
                                 <<"- ", ToString(i), ": ">> \o OldLines[i] \o <<NL>>)
                 /\ i <= Len(NewLines) =>
                        Contains(toolOutcome.shown,
                                 <<"+ ", ToString(i), ": ">> \o NewLines[i] \o <<NL>>)
            ELSE /\ ~Contains(toolOutcome.shown, <<"- ", ToString(i)>>)
                 /\ ~Contains(toolOutcome.shown, <<"+ ", ToString(i)>>)

\* the lines of the text put before the operator
ShownLines == Split(toolOutcome.shown)

\* C19: when the old content cannot be read, the prompt shows the creation
\* preview: the first min(10, n) of the n lines of the new content, then the
\* line "... (n-10 more lines)" exactly when n > 10
C19_CreationPreview ==
    (WriteOfText /\ ~OldRead) =>
        LET n == Len(NewLines)
            m == Min(10, n)
        IN /\ toolOutcome.prompted
           /\ Len(ShownLines) = 3 + m + (IF n > 10 THEN 1 ELSE 0) + 1
           /\ ShownLines[1] = <<"Creating new file: ">> \o toolCall.arguments.path.v
           /\ ShownLines[3] = <<"Content preview:">>
           /\ \A i \in 1..m : ShownLines[3 + i] = NewLines[i]
           /\ n > 10 => ShownLines[4 + m] = <<"... (", ToString(n - 10), " more lines)">>
           /\ ShownLines[Len(ShownLines)] = <<Rule>>
           /\ ~Contains(toolOutcome.shown, <<"No changes detected.", NL>>)

C19_Witness ==
    /\ WriteOfText /\ ~OldRead
    /\ Len(NewLines) = 12
    /\ Contains(toolOutcome.shown, <<"line ", "10", NL, "... (", "2", " more lines)">>)
    /\ ~Contains(toolOutcome.shown, <<"line ", "11">>)

\* the last call was a run_command whose subprocess ran to its end
CommandRan ==
    /\ toolCall.impl # "none"
    /\ toolCall.name = "run_command"
    /\ toolCall.arguments.t = "object"
    /\ toolCall.arguments.command.t = "string"
    /\ ~toolCall.io.spawnFails

\* what the loop of handleToolCalls does with the same call under the id 1
CommandInBatch ==
    LoopBody([id |-> 1, function |-> Function("run_command", "{\"command\":\"ls\"}")],
             toolCall.io, toolCall.before, << >>, FALSE, << >>)

\* C20: run_command returns "Command output:\n<stdout>" exactly when the exit
\* code is 0 and "Command failed (exit code <code>):\n<stderr>" for any other
\* code; a non-zero exit raises nothing, and in a batch it gives an ordinary
\* tool message that does not end the turn
C20_ExitCodeBecomesText ==
    CommandRan =>
        /\ ~toolOutcome.raised
        /\ toolOutcome.result =
               (IF toolCall.io.code = 0
                THEN <<"Command output:\n">> \o toolCall.io.stdout
                ELSE <<"Command failed (exit code ", ToString(toolCall.io.code), "):\n">>
                         \o toolCall.io.stderr)
        /\ StartsWith(toolOutcome.result, <<"Command output:\n">>) <=> toolCall.io.code = 0
        /\ files = toolCall.before
        /\ toolCall.io.code # 0 =>
               /\ ~CommandInBatch.thrown
               /\ ~CommandInBatch.fin
               /\ CommandInBatch.conv =
                      <<Wire("tool", Str(toolOutcome.result), Undefined, Num(1))>>

C20_Witness ==
    /\ CommandRan
    /\ toolCall.io.code = 127
    /\ toolOutcome.result = <<"Command failed (exit code ", "127", "):\n", "err">>

\* C21: two presses of Ctrl+C in a row exit the application, two presses of
\* Escape in a row exit it, and it never exits after one press only
C21_DoublePressExits ==
    /\ (Len(keys) >= 2 /\ keys[Len(keys)] = keys[Len(keys) - 1]) => exited
    /\ exited => Len(keys) >= 2

\* the asynchronous handler of a command of this kind appends its message in
\* this step
Completes(kind) ==
    \E i \in DOMAIN jobs :
        /\ jobs[i].kind = kind
        /\ jobs[i].state = "queued"
        /\ jobs'[i].state = "done"

\* C22: when /config reset without a section reports "Configuration reset to
\* defaults", getConfig returns the default configuration and the
\* configuration file exists again and holds it
C22_ResetRestoresDefaults ==
    [][(/\ Completes("reset")
        /\ messages'[Len(messages')].content = <<"Configuration reset to defaults">>)
       => /\ config' = DefaultConfig
          /\ maxRecursionDepth' = DefaultMaxRecursionDepth
          /\ configFile' = [ConfigFile(DefaultConfig, DefaultMaxRecursionDepth)
                               EXCEPT !.failed = configFile.failed]]_vars

\* C23: a started turn makes at most ceiling + 1 completion requests, runs a
\* batch only below the ceiling (so at most ceiling batches), and isLoading
\* is false again in the end, whether the turn ends with a reply or an error
C23_TurnTerminates ==
    /\ [](trace.requests <= MAX_RECURSION_DEPTH + 1)
    /\ [](pc = "toolLoop" => depth < MAX_RECURSION_DEPTH)
    /\ (isLoading ~> ~isLoading)

C23_Witness ==
    /\ turns > 0
    /\ ~isLoading
    /\ pc = "idle"
    /\ depth = MAX_RECURSION_DEPTH
    /\ trace.requests = MAX_RECURSION_DEPTH + 1

\* C24: no two messages of the visible list have the same id
C24_UniqueIds ==
    \A i, j \in DOMAIN messages : messages[i].id = messages[j].id => i = j

\* C25: a call of handleSubmit made while a turn is in flight, or with a text
\* that is empty after trimming, appends no message, leaves the command
\* history and the history index alone, runs no command handler and makes no
\* completion request; so no turn starts while another is in flight
C25_IgnoredSubmission ==
    [][(/\ lastSubmit'.n # lastSubmit.n
        /\ (lastSubmit'.loading \/ Trim(lastSubmit'.value) = << >>))
       => UNCHANGED <<messages, commandHistory, historyIndex, jobs, trace,
                      lastRequest, turn, turns, isLoading, pc>>]_vars

C25_Witness ==
    /\ isLoading
    /\ lastSubmit.loading
    /\ lastSubmit.value = <<"/logs">>
    /\ lastSubmit.n = 2
    /\ Len(commandHistory) = 1

\* C26: when the old content was read and differs from the new content in
\* any way, trailing empty lines included, the diff shown for approval holds
\* a removal or an addition line and does not say "No changes detected."
C26_NoChangesOnlyWhenIdentical ==
    (WriteOfText /\ OldRead /\ OldFile.content # toolCall.arguments.content.v) =>
        /\ \E k \in DOMAIN toolOutcome.shown : toolOutcome.shown[k] \in {"- ", "+ "}
        /\ ~Contains(toolOutcome.shown, <<"No changes detected.", NL>>)

\* the newest reply calls the finished tool more than once and its batch has
\* been handled
SeveralFinished ==
    /\ ReplyHasCalls
    /\ Cardinality(FinishedCalls) >= 2
    /\ lastReply.depth < MAX_RECURSION_DEPTH
    /\ pc # "toolLoop"

\* C27: when a batch holds several finished calls, each of them is executed
\* and has a tool message under its id, and the fallback final message is
\* "Task completed: " with the summary of the last finished call of the batch
C27_LastFinishedWins ==
    SeveralFinished =>
        /\ \A i \in FinishedCalls :
               /\ \E k \in DOMAIN trace.executed : trace.executed[k] = ReplyCalls[i].id
               /\ \E k \in DOMAIN ToolResults :
                      /\ ToolResults[k].tool_call_id = Num(ReplyCalls[i].id)
                      /\ StartsWith(ToolResults[k].content.v, Sentinel)
        /\ ~Truthy(lastReply.message.content) =>
               TurnEndedWith(<<"Task completed: ">> \o LastSummary)

\* C28: when the write of the configuration file fails during an update, the
\* configuration getConfig returns is the one from before the operation and
\* no watcher is notified
C28_UpdateAtomic ==
    [][configFile'.failed # configFile.failed
       => /\ config' = config
          /\ maxRecursionDepth' = maxRecursionDepth
          /\ notifyCount' = notifyCount
          /\ currentModel' = currentModel]_vars

\* the imported file cannot be installed: it cannot be read, is not JSON, or
\* holds a configuration that lacks the version, the default model, an
\* enabled provider or the colour scheme
Rejected(f) ==
    \/ ~f.readable
    \/ ~f.json
    \/ f.config.version = ""
    \/ f.config.defaultModel = ""
    \/ f.config.providers # "openai"
    \/ f.config.colorScheme = ""

\* the asynchronous handler of /config import ends in this step, for a file
\* that cannot be installed
ImportRejected ==
    \E i \in DOMAIN jobs :
        /\ jobs[i].kind = "import"
        /\ jobs[i].state = "queued"
        /\ jobs'[i].state = "done"
        /\ Rejected(jobs[i].arg)

\* C29: /config import of a file that cannot be read or parsed, or whose
\* configuration is invalid, does not save: the configuration in memory and
\* the configuration file stay as they were and no watcher is notified
C29_ImportRejectsInvalid ==
    [][ImportRejected
       => /\ config' = config
          /\ maxRecursionDepth' = maxRecursionDepth
          /\ configFile' = configFile
          /\ notifyCount' = notifyCount]_vars

C29_Witness ==
    \E i \in DOMAIN jobs :
        /\ jobs[i].kind = "import"
        /\ jobs[i].state = "done"
        /\ jobs[i].arg.json
        /\ jobs[i].arg.config.providers = "missing"
        /\ messages[Len(messages)].content = <<"Error importing configuration: ", "error">>
        /\ notifyCount = 0

\* C30: the current model changes only in a /model command or when
\* general.defaultModel changes: a save of the configuration that leaves
\* general.defaultModel as it was leaves the current model as it was
C30_ModelSticks ==
    [][(lastSubmit'.n = lastSubmit.n /\ config'.defaultModel = config.defaultModel)
       => currentModel' = currentModel]_vars

\* C31: a save that succeeds calls each registered callback once, with the
\* configuration that is in memory after the save; a callback that is not
\* registered, because its unsubscribe function was called, is not called;
\* a save that fails calls no callback
C31_WatchersNotified ==
    [][/\ notifyCount' # notifyCount =>
            \A w \in Callbacks :
                calls'[w] = IF w \in watchers THEN Append(calls[w], config')
                                              ELSE calls[w]
       /\ notifyCount' = notifyCount => calls' = calls
       /\ configFile'.failed # configFile.failed => notifyCount' = notifyCount]_vars

C31_Witness ==
    /\ "w1" \notin watchers
    /\ "w2" \in watchers
    /\ Len(calls["w1"]) = 1
    /\ Len(calls["w2"]) = 2
    /\ notifyCount = 2
    /\ configFile.failed = 1

\* C32: ui.colorScheme always names a theme of ui.themes and getCurrentTheme
\* returns one; setActiveTheme with a name that is no theme leaves the
\* configuration and its file as they were
C32_SchemeNamesTheme ==
    /\ [](config.colorScheme \in Themes /\ getCurrentTheme \in Themes)
    /\ [][(\E i \in DOMAIN jobs :
               /\ jobs[i].kind = "theme"
               /\ jobs[i].arg \notin Themes
               /\ jobs[i].state = "queued"
               /\ jobs'[i].state = "done")
          => UNCHANGED <<config, configFile, notifyCount>>]_vars

\* C33: the process exits only in a press of Ctrl+C or Escape made while the
\* exit counter is positive; a press of an arrow key (the history index
\* moves), like any other key and the timer, leaves the exit counter at 0
C33_OtherKeysResetExit ==
    [][/\ (exited' /\ ~exited) => (exitPressCount > 0 /\ keys' # keys)
       /\ (keys' = << >> /\ keys # << >>) => exitPressCount' = 0
       /\ historyIndex' # historyIndex => exitPressCount' = 0]_vars

\* the history index moves and no line is submitted: an arrow key
ArrowMoves == historyIndex' # historyIndex /\ commandHistory' = commandHistory

\* C34: historyIndex is -1 or an index of commandHistory; Up from -1 selects
\* the newest line and further Up presses go back one line, not below index
\* 0; Down goes forward one line and from the newest line to -1 with an
\* empty input; an accepted submission appends its trimmed text and sets the
\* index to -1
C34_HistoryIndexValid ==
    /\ [](historyIndex = -1 \/ (0 <= historyIndex /\ historyIndex < Len(commandHistory)))
    /\ [][/\ (ArrowMoves /\ historyIndex = -1) =>
                /\ historyIndex' = Len(commandHistory) - 1
                /\ input' = commandHistory[Len(commandHistory)]
          /\ (ArrowMoves /\ historyIndex' = -1) =>
                /\ historyIndex = Len(commandHistory) - 1
                /\ input' = << >>
          /\ (ArrowMoves /\ historyIndex # -1 /\ historyIndex' # -1) =>
                /\ historyIndex' \in {historyIndex - 1, historyIndex + 1}
                /\ input' = commandHistory[historyIndex' + 1]
          /\ commandHistory' # commandHistory =>
                /\ commandHistory' = Append(commandHistory, Trim(lastSubmit'.value))
                /\ historyIndex' = -1]_vars

C34_Witness ==
    /\ Len(commandHistory) = 2
    /\ historyIndex = 0
    /\ input = commandHistory[1]

\* C35: fetchAvailableModels does not fail and returns a list that is not
\* empty and holds members of FUNCTION_CALLING_MODELS only, whether the
\* request for the model list succeeds, returns no such model, or throws
C35_ModelsNeverEmpty ==
    fetch.asked =>
        /\ ~fetch.failed
        /\ fetch.value # << >>
        /\ \A k \in DOMAIN fetch.value : Includes(FUNCTION_CALLING_MODELS, fetch.value[k])

C35_Witness ==
    /\ fetch.asked
    /\ fetch.list.data = <<"whisper-1", "gpt-4o", "gpt-4">>
    /\ fetch.value = <<"gpt-4", "gpt-4o">>

\* C36: Escape pressed in input mode cancels the prompt: an onCancel has run,
\* the input state is cleared and the UI is no longer in input mode
C36_EscapeCancelsPrompt ==
    (configUI.pressed = [key |-> "escape", mode |-> "input"]) =>
        /\ configUI.cancels > 0
        /\ configUI.inputState = NoInput
        /\ configUI.mode # "input"

====
